---- MODULE Spec2Model ----
(***************************************************************************)
(* gitignore-filter: the ignore-pattern resolution engine                  *)
(* (patterns/pathspec.py, utils/pathspec_util.py, scanner/ignore.py,       *)
(* scanner/base.py) and the parallel directory walker (scanner/worker.py,  *)
(* core.py).                                                               *)
(*                                                                         *)
(* Strings are sequences of one-character strings; a pathlib.Path is the   *)
(* sequence of its parts (each part a string).                             *)
(***************************************************************************)
EXTENDS Integers, Sequences, FiniteSets, TLC

(***************************************************************************)
(* Strings                                                                 *)
(***************************************************************************)

\* The characters used, in code-point order (Python compares str by code point).
Ascii ==
  << " ", "!", "#", "*", ",", ".", "/", "?", "A", "G", "I", "T", "X", "\\",
     "a", "b", "c", "d", "e", "f", "g", "h", "i", "j", "k", "l", "m", "n",
     "o", "p", "q", "r", "s", "t", "u", "v", "w", "x", "y", "z", "{", "}" >>

Ord(c) == CHOOSE i \in 1..Len(Ascii) : Ascii[i] = c

\* str.lower() on one character
LowerChar(c) ==
  CASE c = "A" -> "a" [] c = "G" -> "g" [] c = "I" -> "i"
    [] c = "T" -> "t" [] c = "X" -> "x" [] OTHER -> c

Lower(s) == [i \in 1..Len(s) |-> LowerChar(s[i])]

StartsWith(s, p) == Len(s) >= Len(p) /\ SubSeq(s, 1, Len(p)) = p

EndsWith(s, p) == Len(s) >= Len(p) /\ SubSeq(s, Len(s) - Len(p) + 1, Len(s)) = p

Drop(s, n) == SubSeq(s, n + 1, Len(s))

RECURSIVE LStrip(_)
LStrip(s) == IF s # <<>> /\ s[1] = " " THEN LStrip(Tail(s)) ELSE s

RECURSIVE RStrip(_)
RStrip(s) ==
  IF s # <<>> /\ s[Len(s)] = " " THEN RStrip(SubSeq(s, 1, Len(s) - 1)) ELSE s

\* str.strip()
Strip(s) == LStrip(RStrip(s))

\* str.replace(a, b) for a one-character a
ReplaceChar(s, a, b) == [i \in 1..Len(s) |-> IF s[i] = a THEN b ELSE s[i]]

\* while "//" in s: s = s.replace("//", "/")
RECURSIVE CollapseSlashes(_)
CollapseSlashes(s) ==
  IF Len(s) < 2 THEN s
  ELSE IF s[1] = "/" /\ s[2] = "/" THEN CollapseSlashes(Tail(s))
  ELSE <<s[1]>> \o CollapseSlashes(Tail(s))

\* str.split(c): the segments between occurrences of c, empty ones kept
RECURSIVE Split(_, _)
Split(s, c) ==
  IF \A i \in 1..Len(s) : s[i] # c THEN <<s>>
  ELSE LET k == CHOOSE i \in 1..Len(s) :
                  s[i] = c /\ \A j \in 1..(i - 1) : s[j] # c
       IN  <<SubSeq(s, 1, k - 1)>> \o Split(Drop(s, k), c)

SplitSlash(s) == Split(s, "/")

\* str.index(c): position (from 1) of the first c in s
Index(s, c) == CHOOSE i \in 1..Len(s) : s[i] = c /\ \A j \in 1..(i - 1) : s[j] # c

Contains(s, c) == \E i \in 1..Len(s) : s[i] = c

\* "/".join(parts): str() of a relative pathlib.Path with these parts
RECURSIVE PathStr(_)
PathStr(parts) ==
  IF parts = <<>> THEN <<".">>
  ELSE IF Len(parts) = 1 THEN parts[1]
  ELSE parts[1] \o <<"/">> \o PathStr(Tail(parts))

\* Python's order on str: lexicographic by code point
RECURSIVE StrLess(_, _)
StrLess(a, b) ==
  IF b = <<>> THEN FALSE
  ELSE IF a = <<>> THEN TRUE
  ELSE IF a[1] # b[1] THEN Ord(a[1]) < Ord(b[1])
  ELSE StrLess(Tail(a), Tail(b))

\* pathlib.PurePath.suffix of a file name
Suffix(name) ==
  LET dots == {i \in 1..Len(name) : name[i] = "."}
  IN  IF dots = {} THEN <<>>
      ELSE LET i == CHOOSE k \in dots : \A d \in dots : d <= k
           IN  IF 1 < i /\ i < Len(name) THEN SubSeq(name, i, Len(name))
               ELSE <<>>

(***************************************************************************)
(* pathspec's GitWildMatchPattern and PathSpec, as used by                 *)
(* utils/pathspec_util.py.  A compiled regular expression is a sequence    *)
(* of tokens, anchored at both ends:                                       *)
(*   lit c      the character c                                            *)
(*   any1       one character other than a slash                           *)
(*   star       any run of characters other than a slash                   *)
(*   plus       a non-empty run of characters other than a slash           *)
(*   optprefix  optionally: a non-empty string followed by a slash         *)
(*   optmid     optionally: a slash followed by a non-empty string         *)
(*   tail       a slash followed by any string                             *)
(*   opttail    optionally: a slash followed by any string                 *)
(*   dotplus    any non-empty string                                       *)
(***************************************************************************)

Tok(t) == [t |-> t, c |-> ""]

Lit(c) == [t |-> "lit", c |-> c]

\* GitWildMatchPattern._translate_segment_glob
RECURSIVE TranslateSegmentGlob(_)
TranslateSegmentGlob(seg) ==
  IF seg = <<>> THEN <<>>
  ELSE IF seg[1] = "\\" /\ Len(seg) >= 2
       THEN <<Lit(seg[2])>> \o TranslateSegmentGlob(Drop(seg, 2))
  ELSE IF seg[1] = "*" THEN <<Tok("star")>> \o TranslateSegmentGlob(Tail(seg))
  ELSE IF seg[1] = "?" THEN <<Tok("any1")>> \o TranslateSegmentGlob(Tail(seg))
  ELSE <<Lit(seg[1])>> \o TranslateSegmentGlob(Tail(seg))

\* "EDGE CASE: Deal with duplicate double-asterisk sequences"
RECURSIVE DedupDoubleStar(_)
DedupDoubleStar(segs) ==
  IF Len(segs) < 2 THEN segs
  ELSE IF segs[1] = <<"*", "*">> /\ segs[2] = <<"*", "*">>
       THEN DedupDoubleStar(Tail(segs))
  ELSE <<segs[1]>> \o DedupDoubleStar(Tail(segs))

\* the loop of pattern_to_regex over the normalized segments
RECURSIVE SegsToRegex(_, _, _)
SegsToRegex(segs, i, needSlash) ==
  IF i > Len(segs) THEN <<>>
  ELSE
    LET seg  == segs[i]
        end  == Len(segs)
        sl   == IF needSlash THEN <<Lit("/")>> ELSE <<>>
        last == IF i = end THEN <<Tok("opttail")>> ELSE <<>>
    IN  IF seg = <<"*", "*">>
        THEN IF i = 1 /\ i = end
                THEN <<Tok("plus"), Tok("opttail")>>
             ELSE IF i = 1
                THEN <<Tok("optprefix")>> \o SegsToRegex(segs, i + 1, FALSE)
             ELSE IF i = end
                THEN <<Tok("tail")>>
             ELSE <<Tok("optmid")>> \o SegsToRegex(segs, i + 1, TRUE)
        ELSE IF seg = <<"*">>
        THEN sl \o <<Tok("plus")>> \o last \o SegsToRegex(segs, i + 1, TRUE)
        ELSE sl \o TranslateSegmentGlob(seg) \o last
                \o SegsToRegex(segs, i + 1, TRUE)

\* a line that compiles to no pattern (comment, "/", empty)
NullPattern == [include |-> FALSE, null |-> TRUE, regex |-> <<>>]

\* GitWildMatchPattern.pattern_to_regex
PatternToRegex(line) ==
  LET pattern == Strip(line)
  IN  IF pattern = <<>> \/ pattern[1] = "#" \/ pattern = <<"/">>
      THEN NullPattern
      ELSE
        LET include == pattern[1] # "!"
            body    == IF include THEN pattern ELSE Tail(pattern)
            segs0   == DedupDoubleStar(SplitSlash(body))
            isDir   == segs0[Len(segs0)] = <<>>
            override == Len(segs0) = 2 /\ segs0[1] = <<"*", "*">> /\ segs0[2] = <<>>
            segs1   == IF segs0[1] = <<>> THEN Tail(segs0)
                       ELSE IF Len(segs0) = 1 \/ (Len(segs0) = 2 /\ segs0[2] = <<>>)
                            THEN IF segs0[1] # <<"*", "*">>
                                 THEN <<(<<"*", "*">>)>> \o segs0 ELSE segs0
                       ELSE segs0
            segs2   == IF Len(segs1) > 1 /\ segs1[Len(segs1)] = <<>>
                       THEN [segs1 EXCEPT ![Len(segs1)] = <<"*", "*">>]
                       ELSE segs1
        IN  IF segs1 = <<>> THEN NullPattern
            ELSE [include |-> include, null |-> FALSE,
                  regex |-> IF override THEN <<Tok("dotplus"), Tok("tail")>>
                            ELSE SegsToRegex(segs2, 1, FALSE)]

\* re.match of the anchored token sequence re[i..] against s[j..]
RECURSIVE ReMatch(_, _, _, _)
ReMatch(re, i, s, j) ==
  IF i > Len(re) THEN j = Len(s) + 1
  ELSE
    LET t == re[i].t
    IN  CASE t = "lit" ->
               j <= Len(s) /\ s[j] = re[i].c /\ ReMatch(re, i + 1, s, j + 1)
          [] t = "any1" ->
               j <= Len(s) /\ s[j] # "/" /\ ReMatch(re, i + 1, s, j + 1)
          [] t = "star" ->
               \/ ReMatch(re, i + 1, s, j)
               \/ j <= Len(s) /\ s[j] # "/" /\ ReMatch(re, i, s, j + 1)
          [] t = "plus" ->
               j <= Len(s) /\ s[j] # "/"
                 /\ \/ ReMatch(re, i + 1, s, j + 1)
                    \/ ReMatch(re, i, s, j + 1)
          [] t = "optprefix" ->
               \/ ReMatch(re, i + 1, s, j)
               \/ \E k \in (j + 1)..Len(s) :
                    s[k] = "/" /\ ReMatch(re, i + 1, s, k + 1)
          [] t = "optmid" ->
               \/ ReMatch(re, i + 1, s, j)
               \/ j <= Len(s) /\ s[j] = "/"
                    /\ \E k \in (j + 2)..(Len(s) + 1) : ReMatch(re, i + 1, s, k)
          [] t = "tail" ->
               j <= Len(s) /\ s[j] = "/"
                 /\ \E k \in (j + 1)..(Len(s) + 1) : ReMatch(re, i + 1, s, k)
          [] t = "opttail" ->
               \/ ReMatch(re, i + 1, s, j)
               \/ j <= Len(s) /\ s[j] = "/"
                    /\ \E k \in (j + 1)..(Len(s) + 1) : ReMatch(re, i + 1, s, k)
          [] t = "dotplus" ->
               \E k \in (j + 1)..(Len(s) + 1) : ReMatch(re, i + 1, s, k)

\* pathspec.util.normalize_file
NormalizeFile(file) ==
  IF StartsWith(file, <<"/">>) THEN Tail(file)
  ELSE IF StartsWith(file, <<".", "/">>) THEN Drop(file, 2)
  ELSE file

\* PathSpec.match_file: the last pattern that matches decides
RECURSIVE SpecMatchLoop(_, _, _, _)
SpecMatchLoop(spec, i, file, matched) ==
  IF i > Len(spec) THEN matched
  ELSE IF ~spec[i].null /\ ReMatch(spec[i].regex, 1, file, 1)
       THEN SpecMatchLoop(spec, i + 1, file, spec[i].include)
  ELSE SpecMatchLoop(spec, i + 1, file, matched)

SpecMatchFile(spec, file) == SpecMatchLoop(spec, 1, NormalizeFile(file), FALSE)

(***************************************************************************)
(* utils/pathspec_util.py                                                  *)
(***************************************************************************)

\* the escape loop of normalize_pattern
RECURSIVE Unescape(_)
Unescape(s) ==
  IF s = <<>> THEN <<>>
  ELSE IF s[1] = "\\"
       THEN IF Len(s) >= 2 THEN <<s[2]>> \o Unescape(Drop(s, 2)) ELSE <<"\\">>
  ELSE <<s[1]>> \o Unescape(Tail(s))

normalize_pattern(pattern, case_sensitive) ==
  LET p0 == Strip(pattern)
  IN  IF p0 = <<>> \/ p0[1] = "#" THEN <<>>
      ELSE LET p1 == Unescape(ReplaceChar(p0, "\\", "/"))
               p2 == CollapseSlashes(p1)
               p3 == IF StartsWith(p2, <<".", "/">>) THEN Drop(p2, 2) ELSE p2
           IN  IF case_sensitive THEN p3 ELSE Lower(p3)

RECURSIVE create_pattern_spec(_, _)
create_pattern_spec(patterns, case_sensitive) ==
  IF patterns = <<>> THEN <<>>
  ELSE
    LET p    == patterns[1]
        rest == create_pattern_spec(Tail(patterns), case_sensitive)
        norm == normalize_pattern(p, case_sensitive)
    IN  IF p = <<>> \/ p[1] = "#" \/ norm = <<>> THEN rest
        ELSE <<PatternToRegex(norm)>> \o rest

\* match_path that leaves the path as it is
match_pathNoLower(spec, path, case_sensitive) ==
  SpecMatchFile(spec, ReplaceChar(path, "\\", "/"))

match_path(spec, path, case_sensitive) ==
  LET normalized == ReplaceChar(path, "\\", "/")
  IN  SpecMatchFile(spec, IF case_sensitive THEN normalized ELSE Lower(normalized))


(***************************************************************************)
(* patterns/base.py, patterns/pathspec.py                                  *)
(***************************************************************************)

\* base_path None
None == <<>>

\* BasePattern.__init__ / PathSpecPattern.__init__: the fields kept
PathSpecPattern(pattern, base_path, negated, case_sensitive) ==
  [pattern |-> pattern, base_path |-> base_path, negated |-> negated,
   case_sensitive |-> case_sensitive]

\* BasePattern.is_directory_only
is_directory_only(p) == EndsWith(p.pattern, <<"/">>)

\* BasePattern.is_absolute
is_absolute(p) == StartsWith(p.pattern, <<"/">>)

\* PathSpecPattern.__init__: brace expansion
BraceExpand(pattern) ==
  IF Contains(pattern, "{") /\ Contains(pattern, "}")
  THEN LET start  == Index(pattern, "{")
           end    == Index(pattern, "}")
           prefix == SubSeq(pattern, 1, start - 1)
           suffix == Drop(pattern, end)
           alts   == Split(SubSeq(pattern, start + 1, end - 1), ",")
       IN  [i \in 1..Len(alts) |-> prefix \o alts[i] \o suffix]
  ELSE <<pattern>>

\* PathSpecPattern.__init__: a pattern with a base path is prefixed with **/,
\* or loses its leading slash
BasePrefixed(patterns, base_path) ==
  IF base_path # None
  THEN [i \in 1..Len(patterns) |->
          IF StartsWith(patterns[i], <<"/">>) THEN Tail(patterns[i])
          ELSE <<"*", "*", "/">> \o patterns[i]]
  ELSE patterns

\* PathSpecPattern._spec
PatternSpec(p) ==
  create_pattern_spec(BasePrefixed(BraceExpand(p.pattern), p.base_path),
                      p.case_sensitive)

\* PathSpecPattern.match
match(p, path) ==
  LET path_str == IF p.base_path # None /\ ~StartsWith(path, <<"/">>)
                  THEN <<"*", "*", "/">> \o path ELSE path
  IN  match_path(PatternSpec(p), path_str, p.case_sensitive)

\* PathSpecPattern.match_file
match_file(p, path) == IF is_directory_only(p) THEN FALSE ELSE match(p, path)

\* PathSpecPattern.match_directory.  path is a Path (its parts); cwdKind is
\* what Path(path) names seen from the process's working directory:
\* "file", "dir" or "absent".
match_directory(p, parts, cwdKind) ==
  IF cwdKind = "file" \/ (cwdKind = "absent" /\ Suffix(parts[Len(parts)]) # <<>>)
  THEN FALSE
  ELSE LET s == PathStr(parts)
       IN  match(p, IF EndsWith(s, <<"/">>) THEN s ELSE s \o <<"/">>)

(***************************************************************************)
(* scanner/ignore.py: GitIgnoreScanner                                     *)
(***************************************************************************)

\* GitIgnoreScanner.add_patterns: the registry after appending
RECURSIVE add_patterns(_, _, _, _)
add_patterns(registry, patterns, base_path, case_sensitive) ==
  IF patterns = <<>> THEN registry
  ELSE
    LET line    == patterns[1]
        negated == StartsWith(line, <<"!">>)
        pattern == IF negated THEN Strip(Tail(line)) ELSE line
        next    == IF pattern # <<>>
                   THEN Append(registry,
                               PathSpecPattern(pattern, base_path, negated,
                                               case_sensitive))
                   ELSE registry
    IN  add_patterns(next, Tail(patterns), base_path, case_sensitive)

\* one pattern of the loop of is_ignored
PatternMatches(p, parts, is_dir, cwdKind) ==
  IF is_dir THEN match_directory(p, parts, cwdKind) ELSE match(p, PathStr(parts))

\* the loop without its break: a matching negated pattern clears the flag
\* and the scan goes on
RECURSIVE IsIgnoredLoopNoBreak(_, _, _, _, _, _)
IsIgnoredLoopNoBreak(registry, i, matched, parts, is_dir, cwdKind) ==
  IF i > Len(registry) THEN matched
  ELSE LET matches == PatternMatches(registry[i], parts, is_dir, cwdKind)
       IN  IsIgnoredLoopNoBreak(registry, i + 1,
                                IF matches THEN ~registry[i].negated ELSE matched,
                                parts, is_dir, cwdKind)

\* a loop in which the first matching pattern decides
RECURSIVE IsIgnoredLoopFirstMatch(_, _, _, _, _, _)
IsIgnoredLoopFirstMatch(registry, i, matched, parts, is_dir, cwdKind) ==
  IF i > Len(registry) THEN matched
  ELSE LET matches == PatternMatches(registry[i], parts, is_dir, cwdKind)
       IN  IF matches THEN ~registry[i].negated
           ELSE IsIgnoredLoopFirstMatch(registry, i + 1, matched, parts, is_dir, cwdKind)

\* GitIgnoreScanner.is_ignored: the loop over self._patterns
RECURSIVE IsIgnoredLoop(_, _, _, _, _, _)
IsIgnoredLoop(registry, i, matched, parts, is_dir, cwdKind) ==
  IF i > Len(registry) THEN matched
  ELSE LET matches == PatternMatches(registry[i], parts, is_dir, cwdKind)
       IN  IF registry[i].negated /\ matches THEN FALSE
           ELSE IsIgnoredLoop(registry, i + 1, IF matches THEN TRUE ELSE matched,
                              parts, is_dir, cwdKind)

\* GitIgnoreScanner.is_ignored
GitIgnoreScanner_is_ignored(registry, parts, is_dir, cwdKind) ==
  IsIgnoredLoop(registry, 1, FALSE, parts, is_dir, cwdKind)

\* '.git'
DotGit == <<".", "g", "i", "t">>

\* is_ignored without the test for a .git part
BaseScannerNoGitTest(registry, parts, is_dir, cwdKind) ==
  GitIgnoreScanner_is_ignored(registry, parts, is_dir, cwdKind)

\* BaseScanner.is_ignored with FileSystemScanner._check_ignore_patterns
BaseScanner_is_ignored(registry, parts, is_dir, cwdKind) ==
  IF \E i \in 1..Len(parts) : parts[i] = DotGit THEN TRUE
  ELSE GitIgnoreScanner_is_ignored(registry, parts, is_dir, cwdKind)


(***************************************************************************)
(* The file system scanned.  A node is an entry of the tree under the      *)
(* root: path (the parts relative to the root), kind ("file", "dir",       *)
(* "symfile", "symdir": a symbolic link to a file, to a directory), and    *)
(* for a directory its mode ("ok"; "nolist": listing it raises             *)
(* PermissionError; "noaccess": listing it and probing its entries fail)   *)
(* and its ignore file.  An ignore file is absent, valid UTF-8 ("utf8"),   *)
(* not valid UTF-8 ("latin1": lines holds its ISO-8859-1 decoding) or      *)
(* cannot be opened ("unreadable").                                        *)
(***************************************************************************)

IgnFile(state, lines) == [state |-> state, lines |-> lines]

NoIgn == IgnFile("absent", <<>>)

Node(path, kind) == [path |-> path, kind |-> kind, mode |-> "ok", ign |-> NoIgn]

DirNode(path, mode, ign) == [path |-> path, kind |-> "dir", mode |-> mode, ign |-> ign]

\* '.gitignore'
DotGitignore == <<".", "g", "i", "t", "i", "g", "n", "o", "r", "e">>

IsPrefix(a, b) == Len(a) <= Len(b) /\ SubSeq(b, 1, Len(a)) = a

\* the directory d of the tree (d = <<>> is the root)
DirAt(e, d) == CHOOSE n \in e.nodes : n.path = d

\* os.scandir(d): the direct entries of d
Listing(e, d) == {n \in e.nodes : Len(n.path) = Len(d) + 1 /\ IsPrefix(d, n.path)}

\* an is_symlink() test that is never true
IsSymlinkNever(n) == FALSE

\* DirEntry.is_symlink()
IsSymlink(n) == n.kind \in {"symfile", "symdir"}

\* DirEntry.is_file() and DirEntry.is_dir() follow symbolic links
EntryIsFile(n) == n.kind \in {"file", "symfile"}

EntryIsDir(n) == n.kind \in {"dir", "symdir"}

\* what Path(rel) names for a process whose working directory is e.cwd
CwdKind(e, n) ==
  IF e.cwd = "root" THEN (IF EntryIsDir(n) THEN "dir" ELSE "file")
  ELSE "absent"

\* Path.is_file() of d/.gitignore: "raise" (PermissionError), "yes" or "no"
ProbeIgnoreFile(e, d) ==
  LET dn == DirAt(e, d)
  IN  IF dn.mode = "noaccess" THEN (IF e.probeRaises THEN "raise" ELSE "no")
      ELSE IF dn.ign.state # "absent" THEN "yes" ELSE "no"

(***************************************************************************)
(* Reading ignore files                                                    *)
(***************************************************************************)

Ok(v) == [exc |-> "none", val |-> v]

Raise(x) == [exc |-> x, val |-> <<>>]

\* the stripped, non-empty, non-comment lines
RECURSIVE StripLines(_)
StripLines(lines) ==
  IF lines = <<>> THEN <<>>
  ELSE LET pattern == Strip(lines[1])
       IN  IF pattern # <<>> /\ pattern[1] # "#"
           THEN <<pattern>> \o StripLines(Tail(lines))
           ELSE StripLines(Tail(lines))

\* GitIgnoreScanner.read_file on a file in state ign (is_file is its probe)
read_file(ign, is_file) ==
  IF is_file = "raise" THEN Raise("PermissionError")
  ELSE IF is_file = "no" THEN Ok(<<>>)
  ELSE IF ign.state = "unreadable" THEN Raise("PermissionError")
  ELSE Ok(StripLines(ign.lines))

\* FileSystemScanner.read_ignore_file: every exception gives []
read_ignore_file(ign, is_file) ==
  LET r == read_file(ign, is_file)
  IN  IF r.exc = "none" THEN r.val ELSE <<>>

\* the list comprehension of scan_recursive: the '#' test is on the raw line
RECURSIVE WorkerLines(_)
WorkerLines(lines) ==
  IF lines = <<>> THEN <<>>
  ELSE IF Strip(lines[1]) # <<>> /\ ~StartsWith(lines[1], <<"#">>)
       THEN <<Strip(lines[1])>> \o WorkerLines(Tail(lines))
       ELSE WorkerLines(Tail(lines))

\* list(set of str) without sorting: here the elements come out in
\* descending order
RECURSIVE Unsorted(_)
Unsorted(S) ==
  IF S = {} THEN <<>>
  ELSE LET m == CHOOSE x \in S : \A y \in S \ {x} : StrLess(y, x)
       IN  <<m>> \o Unsorted(S \ {m})

\* sorted(set of str)
RECURSIVE Sorted(_)
Sorted(S) ==
  IF S = {} THEN <<>>
  ELSE LET m == CHOOSE x \in S : \A y \in S \ {x} : StrLess(x, y)
       IN  <<m>> \o Sorted(S \ {m})


(***************************************************************************)
(* The inputs of a scan: the tree, the options of git_ignore_filter, the   *)
(* configuration provider and the process's working directory.             *)
(***************************************************************************)

N_r_txt == <<"r", ".", "t", "x", "t">>
N_a_py  == <<"a", ".", "p", "y">>
N_ln    == <<"l", "n">>
N_cfg   == <<"c", "f", "g">>
N_top   == <<"t", "o", "p">>
N_s     == <<"s">>
N_t     == <<"t">>
N_x_txt == <<"x", ".", "t", "x", "t">>
N_y_txt == <<"y", ".", "t", "x", "t">>
N_l_py  == <<"l", ".", "p", "y">>

P_txt     == <<"*", ".", "t", "x", "t">>
P_not_txt == <<"!", "*", ".", "t", "x", "t">>
P_not_cfg == <<"!", "c", "f", "g">>
P_py      == <<"*", ".", "p", "y">>

\* the .gitignore entry of every directory that holds an ignore file
IgnoreFileNodes(dirs) ==
  {Node(Append(d.path, DotGitignore), "file") : d \in {x \in dirs : x.ign.state # "absent"}}

\* the tree: root files r.txt and a.py, a symbolic link ln to a directory,
\* .git/cfg, and top/ holding s/x.txt, t/y.txt and a symbolic link l.py
Tree(rootMode, rootIgn, sIgn, tMode) ==
  LET ds == { DirNode(<<>>, rootMode, rootIgn),
              DirNode(<<DotGit>>, "ok", NoIgn),
              DirNode(<<N_top>>, "ok", NoIgn),
              DirNode(<<N_top, N_s>>, "ok", sIgn),
              DirNode(<<N_top, N_t>>, tMode, NoIgn) }
  IN  ds \cup IgnoreFileNodes(ds) \cup
      { Node(<<N_r_txt>>, "file"), Node(<<N_a_py>>, "file"),
        Node(<<N_ln>>, "symdir"),
        Node(<<DotGit, N_cfg>>, "file"),
        Node(<<N_top, N_s, N_x_txt>>, "file"),
        Node(<<N_top, N_t, N_y_txt>>, "file"),
        Node(<<N_top, N_l_py>>, "symfile") }

NoRepo == [state |-> "norepo", ignorecase |-> FALSE, excludes |-> NoIgn]

Env(nodes, custom, cs, nw, config, probeRaises, cwd) ==
  [exists |-> TRUE, nodes |-> nodes, custom_patterns |-> custom,
   case_sensitive |-> cs, num_workers |-> nw, config |-> config,
   probeRaises |-> probeRaises, cwd |-> cwd, start_method |-> "fork"]

RootIgns ==
  { NoIgn, IgnFile("utf8", <<P_txt>>), IgnFile("latin1", <<P_txt>>),
    IgnFile("unreadable", <<>>) }

NestedIgns ==
  { NoIgn, IgnFile("utf8", <<P_not_txt>>), IgnFile("latin1", <<P_not_txt>>),
    IgnFile("unreadable", <<>>) }

\* trees that can be listed at the root, with every state of the ignore files
EnvsWalk ==
  { Env(Tree("ok", ri, si, tm), <<>>, "true", nw, NoRepo, FALSE, "other") :
      ri \in RootIgns, si \in NestedIgns, tm \in {"ok", "nolist"}, nw \in {1, 2} }

\* roots that cannot be listed
EnvsRoot ==
  { Env(Tree(rm, ri, NoIgn, "ok"), <<>>, "true", 2, NoRepo, pr, "other") :
      rm \in {"nolist", "noaccess"}, ri \in RootIgns, pr \in BOOLEAN }

\* the options
EnvsOptions ==
  { Env(Tree("ok", IgnFile("utf8", <<P_txt>>), IgnFile("utf8", <<P_not_txt>>), "ok"),
        cu, "unset", 2, NoRepo, FALSE, cwd) :
      cu \in {<<P_not_cfg>>, <<P_py, P_not_cfg>>}, cwd \in {"root", "other"} }

\* directory_path names no directory: nothing is there, or a regular file is
EnvsMissing ==
  { [Env({Node(<<>>, k)}, cu, "unset", 2, NoRepo, FALSE, "other") EXCEPT !.exists = (k = "file")] :
      k \in {"absent", "file"}, cu \in {<<>>, <<P_py>>} }

\* a repository whose configuration gives core.ignorecase and whose
\* core.excludesFile names the file ex
Repo(ic, ex) == [state |-> "ok", ignorecase |-> ic, excludes |-> ex]

\* a repository one of whose configuration files is not valid UTF-8
Undecodable == [state |-> "undecodable", ignorecase |-> FALSE, excludes |-> NoIgn]

GlobalIgns ==
  { NoIgn, IgnFile("utf8", <<P_py, P_txt>>), IgnFile("unreadable", <<>>) }

\* the states of the configuration provider, with a pattern repeated in the
\* root ignore file, the custom patterns and the global excludes file
EnvsConfig ==
  { Env(Tree("ok", IgnFile("utf8", <<P_txt>>), NoIgn, "ok"),
        <<P_not_cfg, P_txt>>, cs, 2, cfg, FALSE, "other") :
      cs \in {"unset", "true"},
      cfg \in {Repo(ic, ex) : ic \in BOOLEAN, ex \in GlobalIgns} \cup {Undecodable} }

N_a_log == <<"a", ".", "l", "o", "g">>

P_log   == <<"*", ".", "l", "o", "g">>

\* a root directory holding a.py, a.log and .gitignore = *.log
TreeA ==
  LET ds == { DirNode(<<>>, "ok", IgnFile("utf8", <<P_log>>)) }
  IN  ds \cup IgnoreFileNodes(ds) \cup
      { Node(<<N_a_py>>, "file"), Node(<<N_a_log>>, "file") }

EnvsScenarioA ==
  { Env(TreeA, <<>>, cs, nw, NoRepo, FALSE, "other") :
      cs \in {"unset", "true"}, nw \in {1, 2} }

N_b     == <<"b">>
N_c     == <<"c">>
N_k_txt == <<"k", ".", "t", "x", "t">>

P_b_dir     == <<"b", "/">>
P_c_dir     == <<"c", "/">>
P_not_k_txt == <<"!", "k", ".", "t", "x", "t">>

\* a root directory holding .gitignore = lines and b/, which holds k.txt and
\* c/k.txt
TreeB(lines) ==
  LET ds == { DirNode(<<>>, "ok", IgnFile("utf8", lines)),
              DirNode(<<N_b>>, "ok", NoIgn),
              DirNode(<<N_b, N_c>>, "ok", NoIgn) }
  IN  ds \cup IgnoreFileNodes(ds) \cup
      { Node(<<N_b, N_k_txt>>, "file"), Node(<<N_b, N_c, N_k_txt>>, "file") }

\* a directory pattern followed by a negated pattern that names a file of
\* the directory: the directory is at the top of the tree (b/) or deeper (c/)
EnvsPruned ==
  { Env(TreeB(<<dp, P_not_k_txt>>), <<>>, "true", 1, NoRepo, FALSE, "other") :
      dp \in {P_b_dir, P_c_dir} }

Envs ==
  EnvsWalk \cup EnvsRoot \cup EnvsOptions \cup EnvsMissing \cup EnvsConfig
    \cup EnvsScenarioA \cup EnvsPruned

(***************************************************************************)
(* utils/cache.py: PatternCache.  The cache keeps one table per pattern    *)
(* object in a WeakKeyDictionary; a table maps (str(path), is_dir) to the  *)
(* stored res.  The field "gets" is history: the number of get calls    *)
(* since construction or the last clear.  The field "last" records the     *)
(* last call and what it returned.                                         *)
(***************************************************************************)

\* the default of the constructor's max_size
DefaultMaxSize == 10000

\* An object handed to the cache as a pattern is a tuple of its class and of
\* what tells the objects of the class apart.

\* the i-th PathSpecPattern of the registry of the scanner `owner`
PatternObject(owner, i) == <<"PathSpecPattern", owner, i>>

\* pattern objects that weakref.ref accepts and that hash
WeakReferenceable == {<<"object", 1>>, <<"object", 2>>}

\* a pattern object that weakref.ref rejects: a list
NotWeakReferenceable == <<"list", 1>>

CachePatterns == WeakReferenceable \cup {NotWeakReferenceable}

\* the path argument of get and set: a str or a pathlib.Path
StrArg(s) == [type |-> "str", s |-> s, parts |-> <<>>]
PathArg(parts) == [type |-> "Path", s |-> <<>>, parts |-> parts]

\* str(path)
pystr(path) == IF path.type = "Path" THEN PathStr(path.parts) ELSE path.s

\* the (path, is_dir) arguments of the calls
CacheArgs ==
  { <<StrArg(<<"a">>), FALSE>>,
    <<StrArg(<<"a">>), TRUE>>,
    <<PathArg(<< <<"a">> >>), FALSE>>,
    <<StrArg(<<"a", "/">>), FALSE>> }

\* the values of max_size the caches are built with
MaxSizes == {0, 1, 2}

NoCall == [op |-> "none", pattern |-> <<>>, key |-> <<>>, full |-> FALSE, ret |-> None]

\* PatternCache.__init__
PatternCache(max_size) ==
  [max_size |-> max_size, tables |-> <<>>, hits |-> 0, misses |-> 0,
   live |-> CachePatterns, gets |-> 0, last |-> NoCall]

\* the value of the cache variable where no cache is under study
CacheIdle == PatternCache(DefaultMaxSize)

\* PatternCache._is_cacheable
is_cacheable(pattern) == pattern[1] # "list"

\* the key of a table
Key(path, is_dir) == <<pystr(path), is_dir>>

\* cache_dict.get(key) of get: the stored value in a one-element sequence,
\* or None
Stored(c, pattern, key) ==
  IF pattern \in DOMAIN c.tables /\ key \in DOMAIN c.tables[pattern]
  THEN <<c.tables[pattern][key]>>
  ELSE None

\* a get that counts a stored False as a miss
PatternCache_getTruthy(c, pattern, path, is_dir) ==
  LET miss == [ret |-> None, hits |-> c.hits, misses |-> c.misses + 1]
  IN  IF ~is_cacheable(pattern) THEN miss
      ELSE IF pattern \notin DOMAIN c.tables THEN miss
      ELSE LET res == Stored(c, pattern, Key(path, is_dir))
           IN  IF res = <<TRUE>>
               THEN [ret |-> res, hits |-> c.hits + 1, misses |-> c.misses]
               ELSE [ret |-> res, hits |-> c.hits, misses |-> c.misses + 1]

\* PatternCache.get: the value returned and the counters afterwards
PatternCache_get(c, pattern, path, is_dir) ==
  LET miss == [ret |-> None, hits |-> c.hits, misses |-> c.misses + 1]
  IN  IF ~is_cacheable(pattern) THEN miss
      ELSE IF pattern \notin DOMAIN c.tables THEN miss
      ELSE LET res == Stored(c, pattern, Key(path, is_dir))
           IN  IF res # None
               THEN [ret |-> res, hits |-> c.hits + 1, misses |-> c.misses]
               ELSE [ret |-> res, hits |-> c.hits, misses |-> c.misses + 1]

\* len(cache_dict) >= self._max_size, as set finds it
TableFull(c, pattern) ==
  LET n == IF pattern \in DOMAIN c.tables
           THEN Cardinality(DOMAIN c.tables[pattern]) ELSE 0
  IN  n >= c.max_size

\* a set that evicts nothing
PatternCache_setNoReset(c, pattern, path, is_dir, res) ==
  IF ~is_cacheable(pattern) THEN c.tables
  ELSE LET key == Key(path, is_dir)
           t0 == IF pattern \in DOMAIN c.tables THEN c.tables[pattern] ELSE <<>>
           t2 == [k \in DOMAIN t0 \cup {key} |-> IF k = key THEN res ELSE t0[k]]
       IN  [q \in DOMAIN c.tables \cup {pattern} |->
              IF q = pattern THEN t2 ELSE c.tables[q]]

\* a set that writes under the path alone
PatternCache_setNoFlag(c, pattern, path, is_dir, res) ==
  IF ~is_cacheable(pattern) THEN c.tables
  ELSE LET t0 == IF pattern \in DOMAIN c.tables THEN c.tables[pattern] ELSE <<>>
           t1 == IF TableFull(c, pattern) THEN <<>> ELSE t0
           keys == {Key(path, d) : d \in BOOLEAN}
           t2 == [k \in DOMAIN t1 \cup keys |-> IF k \in keys THEN res ELSE t1[k]]
       IN  [q \in DOMAIN c.tables \cup {pattern} |->
              IF q = pattern THEN t2 ELSE c.tables[q]]

\* PatternCache.set: the tables afterwards
PatternCache_set(c, pattern, path, is_dir, res) ==
  IF ~is_cacheable(pattern) THEN c.tables
  ELSE LET key == Key(path, is_dir)
           t0 == IF pattern \in DOMAIN c.tables THEN c.tables[pattern] ELSE <<>>
           t1 == IF TableFull(c, pattern) THEN <<>> ELSE t0
           t2 == [k \in DOMAIN t1 \cup {key} |-> IF k = key THEN res ELSE t1[k]]
       IN  [q \in DOMAIN c.tables \cup {pattern} |->
              IF q = pattern THEN t2 ELSE c.tables[q]]

\* the cache after cache.get(pattern, path, is_dir)
AfterGet(c, pattern, path, is_dir) ==
  LET g == PatternCache_get(c, pattern, path, is_dir)
  IN  [c EXCEPT !.hits = g.hits, !.misses = g.misses, !.gets = @ + 1,
                !.last = [op |-> "get", pattern |-> pattern, key |-> Key(path, is_dir),
                          full |-> FALSE, ret |-> g.ret]]

\* the cache after cache.set(pattern, path, is_dir, res)
AfterSet(c, pattern, path, is_dir, res) ==
  [c EXCEPT !.tables = PatternCache_set(c, pattern, path, is_dir, res),
            !.last = [op |-> "set", pattern |-> pattern, key |-> Key(path, is_dir),
                      full |-> is_cacheable(pattern) /\ TableFull(c, pattern),
                      ret |-> <<res>>]]

\* the pattern objects of the scanner `owner` are released: the
\* WeakKeyDictionary drops their tables
Released(c, owner) ==
  [c EXCEPT !.tables = [p \in {x \in DOMAIN c.tables : x[2] # owner} |-> c.tables[p]]]

\* GitIgnoreScanner.is_ignored, what its loop does to self._cache: for every
\* pattern it visits, a get whose answer it does not use and a set of the
\* match it computed
RECURSIVE CacheLoop(_, _, _, _, _, _, _, _)
CacheLoop(c, owner, registry, i, path, parts, is_dir, cwdKind) ==
  IF i > Len(registry) THEN c
  ELSE LET matches == PatternMatches(registry[i], parts, is_dir, cwdKind)
           c1 == AfterGet(c, PatternObject(owner, i), path, is_dir)
           c2 == AfterSet(c1, PatternObject(owner, i), path, is_dir, matches)
       IN  IF registry[i].negated /\ matches THEN c2
           ELSE CacheLoop(c2, owner, registry, i + 1, path, parts, is_dir, cwdKind)

\* BaseScanner.is_ignored, what one call does to the cache of its process:
\* a path with a '.git' part never reaches GitIgnoreScanner.is_ignored.
\* The calls of a walk are not recorded in "last".
CacheAfterIsIgnored(c, owner, registry, parts, is_dir, cwdKind) ==
  IF \E i \in 1..Len(parts) : parts[i] = DotGit THEN c
  ELSE [CacheLoop(c, owner, registry, 1, PathArg(parts), parts, is_dir, cwdKind)
          EXCEPT !.last = NoCall]

\* PatternCache.hit_ratio, as the fraction num/den (0/1 for 0.0)
hit_ratio(c) ==
  LET total == c.hits + c.misses
  IN  IF total > 0 THEN [num |-> c.hits, den |-> total] ELSE [num |-> 0, den |-> 1]

(***************************************************************************)
(* State                                                                   *)
(***************************************************************************)

VARIABLES
  env,             \* the inputs of the scan (never changed by it)
  pc,              \* where git_ignore_filter / WorkerScanner.scan stands
  case_sensitive,  \* the case mode of the session
  registry,        \* scanner.ignore_scanner._patterns of the orchestrator
  root_patterns,   \* scan(): root_patterns
  dirs,            \* scan(): dirs (paths of the top-level directories)
  files,           \* scan(): files (paths of the root-level files)
  filtered_files,  \* scan(): filtered_files
  merged_patterns, \* scan(): merged_patterns, as handed to the workers
  tasks,           \* future_to_dir: one task per submitted directory
  outcome,         \* "none", "returned", or the exception raised to the caller
  result,          \* the list returned
  prev,            \* the scans of this tree made before: their number, the last list
  rs,              \* a single resolution: a registry, a candidate path, the answer
  cache,           \* a PatternCache and the last call on it; in a scan or a
                   \* resolution, _global_cache of the calling process
  pool,            \* _global_cache of each process of the ProcessPoolExecutor
  walk             \* a sequential walk: FileSystemScanner.scan of the same tree

vars == <<env, prev, rs, cache, pool, walk, pc, case_sensitive, registry, root_patterns, dirs, files,
          filtered_files, merged_patterns, tasks, outcome, result>>

\* no FileSystemScanner.scan was called
FsIdle ==
  [status |-> "idle", registry |-> <<>>, scanned |-> {}, reads |-> <<>>,
   stack |-> <<>>, paths |-> {}]

\* the state in which git_ignore_filter is entered
Fresh ==
  /\ pc = "start"
  /\ pool = <<>>
  /\ walk = FsIdle
  /\ case_sensitive = TRUE
  /\ registry = <<>>
  /\ root_patterns = <<>>
  /\ dirs = {}
  /\ files = {}
  /\ filtered_files = {}
  /\ merged_patterns = <<>>
  /\ tasks = << >>
  /\ outcome = "none"
  /\ result = <<>>

NoScan == [n |-> 0, result |-> <<>>]

RsIdle ==
  [phase |-> "idle", lines |-> <<>>, base |-> <<>>, cs |-> TRUE, registry |-> <<>>,
   parts |-> <<>>, is_dir |-> FALSE, cwdKind |-> "absent", ans |-> FALSE, asked |-> {}, n |-> 0]

Init ==
  /\ env \in Envs
  /\ prev = NoScan
  /\ cache = CacheIdle
  /\ rs = RsIdle
  /\ Fresh

(***************************************************************************)
(* core.py: git_ignore_filter up to scanner.scan()                         *)
(***************************************************************************)

\* an os.path.isdir that holds for every path
isdirAlways(e) == TRUE

\* os.path.isdir(directory_path)
isdir(e) == e.exists /\ DirAt(e, <<>>).kind = "dir"

\* GitConfig(): the exception it raises, or "none"
GitConfig(cfg) ==
  IF cfg.state = "norepo" THEN "FileNotFoundError"
  ELSE IF cfg.state = "undecodable" THEN "UnicodeDecodeError"
  ELSE "none"

GitIgnoreFilter ==
  /\ pc = "start"
  /\ IF ~isdir(env)
     THEN /\ pc' = "raised"
          /\ outcome' = "FileNotFoundError"
          /\ UNCHANGED <<case_sensitive, registry>>
     ELSE IF GitConfig(env.config) \notin {"none", "FileNotFoundError"}
     THEN /\ pc' = "raised"
          /\ outcome' = GitConfig(env.config)
          /\ UNCHANGED <<case_sensitive, registry>>
     ELSE LET cs == IF env.case_sensitive = "unset"
                    THEN (IF env.config.state = "ok"
                          THEN ~env.config.ignorecase ELSE TRUE)
                    ELSE env.case_sensitive = "true"
              r1 == add_patterns(<<>>, env.custom_patterns, None, cs)
              ex == env.config.excludes
              gp == IF env.config.state = "ok" /\ ex.state # "absent"
                    THEN read_ignore_file(ex, "yes") ELSE <<>>
          IN  /\ case_sensitive' = cs
              /\ registry' = add_patterns(r1, gp, None, cs)
              /\ pc' = "read_root"
              /\ UNCHANGED outcome
  /\ UNCHANGED <<env, prev, rs, cache, pool, walk, root_patterns, dirs, files, filtered_files,
                 merged_patterns, tasks, result>>


(***************************************************************************)
(* scanner/worker.py: WorkerScanner.scan, the orchestrator                 *)
(***************************************************************************)

Root == <<>>

\* scan() lines 47-51 with _read_root_gitignore
ReadRootGitignore ==
  /\ pc = "read_root"
  /\ LET probe == ProbeIgnoreFile(env, Root)
     IN  IF probe = "raise"
         THEN /\ pc' = "raised"
              /\ outcome' = "PermissionError"
              /\ UNCHANGED <<root_patterns, registry>>
         ELSE LET ps == IF probe = "yes"
                        THEN read_ignore_file(DirAt(env, Root).ign, probe)
                        ELSE <<>>
              IN  /\ root_patterns' = ps
                  /\ registry' = IF ps # <<>>
                                 THEN add_patterns(registry, ps, None, case_sensitive)
                                 ELSE registry
                  /\ pc' = "list_root"
                  /\ UNCHANGED outcome
  /\ UNCHANGED <<env, prev, rs, cache, pool, walk, case_sensitive, dirs, files, filtered_files,
                 merged_patterns, tasks, result>>

\* _get_top_level_entries: a PermissionError of os.scandir is caught and the
\* lists collected so far are returned
\* an enumeration that takes symbolic links too
TopLevelEntriesWithLinks(e) ==
  IF DirAt(e, Root).mode # "ok" THEN [dirs |-> {}, files |-> {}]
  ELSE [dirs  |-> {n.path : n \in {x \in Listing(e, Root) : EntryIsDir(x)}},
        files |-> {n.path : n \in {x \in Listing(e, Root) : EntryIsFile(x)}}]

TopLevelEntries(e) ==
  IF DirAt(e, Root).mode # "ok" THEN [dirs |-> {}, files |-> {}]
  ELSE [dirs  |-> {n.path : n \in {x \in Listing(e, Root) :
                                       EntryIsDir(x) /\ ~IsSymlink(x)}},
        files |-> {n.path : n \in {x \in Listing(e, Root) :
                                       EntryIsFile(x) /\ ~IsSymlink(x)}}]

GetTopLevelEntries ==
  /\ pc = "list_root"
  /\ dirs' = TopLevelEntries(env).dirs
  /\ files' = TopLevelEntries(env).files
  /\ pc' = "filter_files"
  /\ UNCHANGED <<env, prev, rs, cache, pool, walk, case_sensitive, registry, root_patterns, filtered_files,
                 merged_patterns, tasks, outcome, result>>

\* scan() lines 56-62: the root-level files that pass the filter
RootFiltered(e, reg, fs) ==
  {PathStr(f) : f \in {x \in fs :
      ~BaseScanner_is_ignored(reg, x, FALSE, CwdKind(e, DirAt(e, x)))}}

\* the same loop, what it does to the cache of the calling process: one
\* is_ignored per file
RECURSIVE CacheAfterFiles(_, _, _, _)
CacheAfterFiles(c, e, reg, fls) ==
  IF fls = {} THEN c
  ELSE LET f == CHOOSE x \in fls : TRUE
       IN  CacheAfterFiles(
             CacheAfterIsIgnored(c, "scan", reg, f, FALSE, CwdKind(e, DirAt(e, f))),
             e, reg, fls \ {f})

FilterRootFiles ==
  /\ pc = "filter_files"
  /\ filtered_files' = RootFiltered(env, registry, files)
  /\ cache' = CacheAfterFiles(cache, env, registry, files)
  /\ pc' = "submit"
  /\ UNCHANGED <<env, prev, rs, pool, walk, case_sensitive, registry, root_patterns, dirs, files,
                 merged_patterns, tasks, outcome, result>>

\* scan() lines 65-71: the pattern texts before they are made unique
\* a merge that leaves out the registered patterns
MergedListRootOnly(rp, reg) == rp

MergedList(rp, reg) ==
  rp \o [i \in 1..Len(reg) |->
           IF reg[i].negated THEN <<"!">> \o reg[i].pattern ELSE reg[i].pattern]

SeqRange(q) == {q[i] : i \in 1..Len(q)}

\* list(set(x)): the elements of x once each, in some order
Orders(S) ==
  {f \in [1..Cardinality(S) -> S] : \A x \in S : \E i \in 1..Cardinality(S) : f[i] = x}

NewTask ==
  [status |-> "pending", registry |-> <<>>, stack |-> <<>>, paths |-> {},
   collected |-> FALSE, proc |-> 0]

\* the processes of ProcessPoolExecutor(max_workers=num_workers), each with
\* its own _global_cache: a forked process starts with a copy of the
\* parent's, a spawned one imports the module and builds a new one
Processes(e, c) ==
  [p \in 1..e.num_workers |->
     IF e.start_method = "fork" THEN [c EXCEPT !.last = NoCall] ELSE CacheIdle]

\* scan() lines 65-86: merge the patterns and submit one task per directory
Submit ==
  /\ pc = "submit"
  /\ \E m \in Orders(SeqRange(MergedList(root_patterns, registry))) :
       merged_patterns' = m
  /\ tasks' = [d \in dirs |-> NewTask]
  /\ pool' = Processes(env, cache)
  /\ pc' = "collect"
  /\ UNCHANGED <<env, prev, rs, cache, walk, case_sensitive, registry, root_patterns, dirs, files,
                 filtered_files, outcome, result>>

\* a collection loop without the except clause: the exception of a future
\* leaves scan()
CollectNoExcept(d) ==
  /\ pc = "collect"
  /\ tasks[d].status \in {"done", "raised"}
  /\ ~tasks[d].collected
  /\ IF tasks[d].status = "done"
     THEN /\ filtered_files' = filtered_files \cup tasks[d].paths
          /\ UNCHANGED <<pc, outcome>>
     ELSE /\ pc' = "raised"
          /\ outcome' = "BrokenProcessPool"
          /\ UNCHANGED filtered_files
  /\ tasks' = [tasks EXCEPT ![d].collected = TRUE]
  /\ UNCHANGED <<env, prev, rs, cache, pool, walk, case_sensitive, registry, root_patterns, dirs,
                 files, merged_patterns, result>>

\* scan() lines 89-96: as_completed yields a finished future; its paths are
\* merged, its exception is logged
Collect(d) ==
  /\ pc = "collect"
  /\ tasks[d].status \in {"done", "raised"}
  /\ ~tasks[d].collected
  /\ filtered_files' = IF tasks[d].status = "done"
                       THEN filtered_files \cup tasks[d].paths
                       ELSE filtered_files
  /\ tasks' = [tasks EXCEPT ![d].collected = TRUE]
  /\ UNCHANGED <<env, prev, rs, cache, pool, walk, pc, case_sensitive, registry, root_patterns, dirs, files,
                 merged_patterns, outcome, result>>

\* a scan that returns what it has merged so far without waiting for the
\* futures that are left
ScanReturnEarly ==
  /\ pc = "collect"
  /\ result' = Sorted(filtered_files)
  /\ outcome' = "returned"
  /\ pc' = "done"
  /\ pool' = <<>>
  /\ cache' = [Released(cache, "scan") EXCEPT !.last = NoCall]
  /\ UNCHANGED <<env, prev, rs, walk, case_sensitive, registry, root_patterns, dirs, files,
                 filtered_files, merged_patterns, tasks>>

\* scan() line 98 and core.py line 105: sorted(filtered_files), sorted again.
\* The executor is shut down when its with block is left, and the scanner
\* with its pattern objects is released when git_ignore_filter returns.
ScanReturn ==
  /\ pc = "collect"
  /\ \A d \in DOMAIN tasks : tasks[d].collected
  /\ result' = Sorted(filtered_files)
  /\ outcome' = "returned"
  /\ pc' = "done"
  /\ pool' = <<>>
  /\ cache' = [Released(cache, "scan") EXCEPT !.last = NoCall]
  /\ UNCHANGED <<env, prev, rs, walk, case_sensitive, registry, root_patterns, dirs, files,
                 filtered_files, merged_patterns, tasks>>

(***************************************************************************)
(* scanner/worker.py: WorkerScanner._worker_scan, one task                 *)
(***************************************************************************)

Frame(dir, todo) == [dir |-> dir, todo |-> todo]

\* scan_recursive(d) up to its loop: the ignore file of d is probed and read
\* outside the try block, os.scandir is called inside it.
\*   exc   the exception that leaves scan_recursive ("none" if none does)
\*   reg   the registry afterwards
\*   todo  the entries the loop will visit
EnterDir(e, reg, d, cs) ==
  LET dn    == DirAt(e, d)
      probe == ProbeIgnoreFile(e, d)
      lines == WorkerLines(dn.ign.lines)
  IN  IF probe = "raise"
      THEN [exc |-> "PermissionError", reg |-> reg, todo |-> {}]
      ELSE IF probe = "yes" /\ dn.ign.state = "unreadable"
      THEN [exc |-> "PermissionError", reg |-> reg, todo |-> {}]
      ELSE IF probe = "yes" /\ dn.ign.state = "latin1"
      THEN [exc |-> "UnicodeDecodeError", reg |-> reg, todo |-> {}]
      ELSE [exc  |-> "none",
            reg  |-> IF probe = "yes" /\ lines # <<>>
                     THEN add_patterns(reg, lines, PathStr(d), cs) ELSE reg,
            todo |-> IF dn.mode = "ok" THEN {n.path : n \in Listing(e, d)} ELSE {}]

\* return from every scan_recursive whose loop has no entry left
RECURSIVE Unwind(_)
Unwind(stack) ==
  IF stack # <<>> /\ stack[Len(stack)].todo = {}
  THEN Unwind(SubSeq(stack, 1, Len(stack) - 1))
  ELSE stack

\* the task after its walk moved to `stack`: it returns result_paths when
\* the outermost scan_recursive returns
Walked(task, reg, stack, paths) ==
  LET st == Unwind(stack)
  IN  [task EXCEPT !.registry = reg, !.stack = st, !.paths = paths,
                   !.status = IF st = <<>> THEN "done" ELSE "running"]

Running == {d \in DOMAIN tasks : tasks[d].status = "running"}

\* the pool processes that run no task
Idle == {p \in DOMAIN pool : \A d \in Running : tasks[d].proc # p}

\* the processes that may take the next task: idle processes whose caches
\* are equal are interchangeable, the one of least number stands for them
Takers == {p \in Idle : \A q \in Idle : q < p => pool[q] # pool[p]}

\* the cache of a pool process when its task ended with `task`: the task's
\* scanner and pattern objects are released when _worker_scan returns
AfterTask(c, task) == IF task.status = "done" THEN Released(c, "task") ELSE c

\* a pool process takes the task of directory d: _worker_scan lines 154-162
\* and the call scan_recursive(directory_path)
TaskStart(d) ==
  /\ pc = "collect"
  /\ tasks[d].status = "pending"
  /\ \E p \in Takers :
       LET r0 == IF merged_patterns # <<>>
                 THEN add_patterns(<<>>, merged_patterns, None, case_sensitive)
                 ELSE <<>>
           en == EnterDir(env, r0, d, case_sensitive)
           t0 == [tasks[d] EXCEPT !.proc = p]
       IN  tasks' = [tasks EXCEPT ![d] =
             IF en.exc # "none"
             THEN [t0 EXCEPT !.status = "done", !.registry = r0, !.paths = {}]
             ELSE Walked(t0, en.reg, <<Frame(d, en.todo)>>, {})]
  /\ UNCHANGED <<env, prev, rs, cache, pool, walk, pc, case_sensitive, registry, root_patterns, dirs, files,
                 filtered_files, merged_patterns, outcome, result>>

\* one iteration of the loop of scan_recursive, on entry n of the directory
\* on top of the stack
VisitEntry(e, task, n, cs) ==
  LET top  == task.stack[Len(task.stack)]
      rest == [task.stack EXCEPT ![Len(task.stack)].todo = top.todo \ {n.path}]
      ign  == BaseScanner_is_ignored(task.registry, n.path, EntryIsDir(n),
                                     CwdKind(e, n))
      en   == EnterDir(e, task.registry, n.path, cs)
  IN  IF IsSymlink(n) THEN Walked(task, task.registry, rest, task.paths)
      ELSE IF EntryIsFile(n)
      THEN Walked(task, task.registry, rest,
                  IF ign THEN task.paths ELSE task.paths \cup {PathStr(n.path)})
      ELSE IF ign THEN Walked(task, task.registry, rest, task.paths)
      ELSE IF en.exc # "none"
           \* the exception leaves the loop of the calling scan_recursive,
           \* whose except clause ends that call
      THEN Walked(task, task.registry,
                  [rest EXCEPT ![Len(rest)].todo = {}], task.paths)
      ELSE Walked(task, en.reg, Append(rest, Frame(n.path, en.todo)), task.paths)

\* the same iteration, what it does to the cache of the task's process
CacheAfterVisit(c, e, task, n) ==
  IF IsSymlink(n) THEN c
  ELSE CacheAfterIsIgnored(c, "task", task.registry, n.path, EntryIsDir(n), CwdKind(e, n))

\* tasks that walk with one registry: what a task appends reaches the others
WorkerEntryShared(d) ==
  /\ pc = "collect"
  /\ tasks[d].status = "running"
  /\ \E p \in tasks[d].stack[Len(tasks[d].stack)].todo :
       LET t1 == VisitEntry(env, tasks[d], DirAt(env, p), case_sensitive)
       IN  /\ tasks' = [x \in DOMAIN tasks |->
                          IF x = d THEN t1
                          ELSE [tasks[x] EXCEPT !.registry = t1.registry]]
           /\ pool' = [pool EXCEPT ![tasks[d].proc] =
                         AfterTask(CacheAfterVisit(@, env, tasks[d], DirAt(env, p)), t1)]
  /\ UNCHANGED <<env, prev, rs, cache, walk, pc, case_sensitive, registry, root_patterns,
                 dirs, files, filtered_files, merged_patterns, outcome, result>>

WorkerEntry(d) ==
  /\ pc = "collect"
  /\ tasks[d].status = "running"
  /\ \E p \in tasks[d].stack[Len(tasks[d].stack)].todo :
       LET t1 == VisitEntry(env, tasks[d], DirAt(env, p), case_sensitive)
       IN  /\ tasks' = [tasks EXCEPT ![d] = t1]
           /\ pool' = [pool EXCEPT ![tasks[d].proc] =
                         AfterTask(CacheAfterVisit(@, env, tasks[d], DirAt(env, p)), t1)]
  /\ UNCHANGED <<env, prev, rs, cache, walk, pc, case_sensitive, registry, root_patterns, dirs, files,
                 filtered_files, merged_patterns, outcome, result>>

\* a pool process dies: the pool is broken and every future that has no
\* result yet yields BrokenProcessPool
AfterCrash(ts) ==
  [d \in DOMAIN ts |->
     IF ts[d].status \in {"pending", "running"}
     THEN [ts[d] EXCEPT !.status = "raised"] ELSE ts[d]]

TaskCrash ==
  /\ pc = "collect"
  /\ Running # {}
  /\ tasks' = AfterCrash(tasks)
  /\ pool' = <<>>
  /\ UNCHANGED <<env, prev, rs, cache, walk, pc, case_sensitive, registry, root_patterns, dirs, files,
                 filtered_files, merged_patterns, outcome, result>>

Next ==
  \/ GitIgnoreFilter
  \/ ReadRootGitignore
  \/ GetTopLevelEntries
  \/ FilterRootFiles
  \/ Submit
  \/ \E d \in DOMAIN tasks : TaskStart(d)
  \/ \E d \in DOMAIN tasks : WorkerEntry(d)
  \/ TaskCrash
  \/ \E d \in DOMAIN tasks : Collect(d)
  \/ ScanReturn

Spec == Init /\ [][Next]_vars

(***************************************************************************)
(* The scan under fair scheduling.  The calling process runs on, every     *)
(* pool process takes a queued task when it is idle and runs on while it   *)
(* has a task (the operating system schedules every process), and          *)
(* as_completed yields every finished future.  Nothing makes a process     *)
(* die, so TaskCrash is not fair.                                          *)
(***************************************************************************)

\* trees whose nested directories can or cannot be read, for pools of one
\* and of two processes
EnvsFair ==
  { Env(Tree("ok", IgnFile("utf8", <<P_txt>>), si, tm), <<>>, "true", nw, NoRepo, FALSE, "other") :
      si \in {IgnFile("utf8", <<P_not_txt>>), IgnFile("unreadable", <<>>)},
      tm \in {"ok", "nolist"}, nw \in {1, 2} }

InitFair ==
  /\ env \in EnvsFair
  /\ prev = NoScan
  /\ cache = CacheIdle
  /\ rs = RsIdle
  /\ Fresh

\* the directories that a tree may hold at its top
FairDirs == {<<DotGit>>, <<N_top>>}

\* the steps of the calling process other than the filter of the root files
Orchestrator ==
  \/ GitIgnoreFilter
  \/ ReadRootGitignore
  \/ GetTopLevelEntries
  \/ Submit
  \/ \E d \in FairDirs : d \in DOMAIN tasks /\ Collect(d)
  \/ ScanReturn

\* WF_vars(FilterRootFiles), written out: the action is enabled exactly when
\* pc = "filter_files"
FairFilter ==
  []<>(pc # "filter_files") \/ []<><<FilterRootFiles>>_vars

\* WF_vars(WorkerEntry(d)), written out: the action is enabled exactly when
\* the task of d is running
FairWalk(d) ==
  \/ []<>(~(pc = "collect" /\ d \in DOMAIN tasks /\ tasks[d].status = "running"))
  \/ []<><<d \in DOMAIN tasks /\ WorkerEntry(d)>>_vars

SpecFair ==
  /\ InitFair
  /\ [][Next]_vars
  /\ WF_vars(Orchestrator)
  /\ FairFilter
  /\ \A d \in FairDirs : WF_vars(d \in DOMAIN tasks /\ TaskStart(d)) /\ FairWalk(d)


(***************************************************************************)
(* Successive scans of the same tree with the same options                 *)
(***************************************************************************)

MaxScans == 2

\* git_ignore_filter is called again after it returned
Rescan ==
  /\ pc = "done"
  /\ prev.n + 1 < MaxScans
  /\ prev' = [n |-> prev.n + 1, result |-> result]
  /\ pc' = "start"
  /\ case_sensitive' = TRUE
  /\ registry' = <<>>
  /\ root_patterns' = <<>>
  /\ dirs' = {}
  /\ files' = {}
  /\ filtered_files' = {}
  /\ merged_patterns' = <<>>
  /\ tasks' = << >>
  /\ outcome' = "none"
  /\ result' = <<>>
  /\ pool' = <<>>
  /\ UNCHANGED <<env, rs, cache, walk>>

\* scans in which no pool process dies
NextTwice ==
  \/ GitIgnoreFilter
  \/ ReadRootGitignore
  \/ GetTopLevelEntries
  \/ FilterRootFiles
  \/ Submit
  \/ \E d \in DOMAIN tasks : TaskStart(d)
  \/ \E d \in DOMAIN tasks : WorkerEntry(d)
  \/ \E d \in DOMAIN tasks : Collect(d)
  \/ ScanReturn
  \/ Rescan

SpecTwice == Init /\ [][NextTwice]_vars

(***************************************************************************)
(* A single resolution by GitIgnoreScanner: patterns are registered with   *)
(* add_patterns, then is_ignored is asked about one candidate path.        *)
(***************************************************************************)

MaxPatterns == 3

\* the number of get calls made on a cache between two clears
MaxGets == 2

P_not_important == <<"!", "i", "m", "p", "o", "r", "t", "a", "n", "t", ".", "t", "x", "t">>
P_not_tests_py  == <<"!", "t", "e", "s", "t", "s", "/", "*", ".", "p", "y">>
P_tests_dir     == <<"t", "e", "s", "t", "s", "/">>

N_important == <<"i", "m", "p", "o", "r", "t", "a", "n", "t", ".", "t", "x", "t">>
N_other     == <<"o", "t", "h", "e", "r", ".", "t", "x", "t">>
N_tests     == <<"t", "e", "s", "t", "s">>
N_docs      == <<"d", "o", "c", "s">>
N_b_py      == <<"b", ".", "p", "y">>
N_v_d       == <<"v", ".", "d">>

P_v_d_dir   == <<"v", ".", "d", "/">>

ResolvePool == {P_txt, P_not_important, P_py, P_not_tests_py, P_tests_dir, P_v_d_dir}

PatternLists == UNION {[1..n -> ResolvePool] : n \in 0..MaxPatterns}

Candidate(parts, is_dir, cwdKind) ==
  [parts |-> parts, is_dir |-> is_dir, cwdKind |-> cwdKind]

Candidates ==
  { Candidate(<<N_important>>, FALSE, "absent"),
    Candidate(<<N_other>>, FALSE, "absent"),
    Candidate(<<N_a_py>>, FALSE, "absent"),
    Candidate(<<N_tests, N_b_py>>, FALSE, "absent"),
    Candidate(<<N_docs, N_important>>, FALSE, "file"),
    Candidate(<<N_tests>>, TRUE, "absent"),
    Candidate(<<N_tests>>, TRUE, "dir"),
    Candidate(<<N_tests>>, FALSE, "absent"),
    Candidate(<<N_docs, N_tests>>, TRUE, "absent"),
    Candidate(<<N_v_d>>, TRUE, "absent"),
    Candidate(<<N_v_d>>, TRUE, "dir"),
    Candidate(<<N_v_d>>, FALSE, "absent") }

\* some input of the scan; a resolution does not read it
EnvIdle == Env(Tree("ok", NoIgn, NoIgn, "ok"), <<>>, "true", 1, NoRepo, FALSE, "other")

InitResolve ==
  /\ env = EnvIdle
  /\ prev = NoScan
  /\ cache = CacheIdle
  /\ Fresh
  /\ \E ls \in PatternLists, c \in Candidates :
       rs = [phase |-> "new", lines |-> ls, base |-> None, cs |-> TRUE,
             registry |-> <<>>, parts |-> c.parts, is_dir |-> c.is_dir, cwdKind |-> c.cwdKind,
             ans |-> FALSE, asked |-> {}, n |-> 0]

scanVars == <<env, prev, pool, walk, pc, case_sensitive, registry, root_patterns, dirs, files,
              filtered_files, merged_patterns, tasks, outcome, result>>

\* GitIgnoreScanner(case_sensitive=cs).add_patterns(lines, base)
RegisterPatterns ==
  /\ rs.phase = "new"
  /\ rs' = [rs EXCEPT !.phase = "registered",
                      !.registry = add_patterns(<<>>, rs.lines, rs.base, rs.cs)]
  /\ UNCHANGED <<scanVars, cache>>

\* scanner.is_ignored(path) for the path the string of which is PathStr(c.parts):
\* the answer, and the calls on the process-wide cache
Asked(r, c) ==
  [r EXCEPT !.phase = "answered",
            !.parts = c.parts, !.is_dir = c.is_dir, !.cwdKind = c.cwdKind,
            !.ans = GitIgnoreScanner_is_ignored(r.registry, c.parts, c.is_dir, c.cwdKind),
            !.asked = @ \cup {c},
            !.n = @ + 1]

CacheAsked(ca, r, c) ==
  CacheLoop(ca, "session", r.registry, 1, StrArg(PathStr(c.parts)), c.parts, c.is_dir, c.cwdKind)

AskIsIgnored ==
  /\ rs.phase = "registered"
  /\ LET c == Candidate(rs.parts, rs.is_dir, rs.cwdKind)
     IN  /\ rs' = Asked(rs, c)
         /\ cache' = CacheAsked(cache, rs, c)
  /\ UNCHANGED scanVars

NextResolve == RegisterPatterns \/ AskIsIgnored

SpecResolve == InitResolve /\ [][NextResolve]_vars


(***************************************************************************)
(* Resolutions of patterns registered with a base directory, as            *)
(* scan_recursive registers the lines of the ignore file of a directory.   *)
(***************************************************************************)

N_root     == <<"r", "o", "o", "t">>
N_test_txt == <<"t", "e", "s", "t", ".", "t", "x", "t">>
N_sub      == <<"s", "u", "b">>
N_other_d  == <<"o", "t", "h", "e", "r">>

P_abs_x_txt    == <<"/">> \o N_x_txt
P_abs_root_txt == <<"/", "r", "o", "o", "t", "/", "*", ".", "t", "x", "t">>

ScopedPool == {P_abs_x_txt, P_abs_root_txt, P_txt, P_not_txt}

ScopedLists == UNION {[1..n -> ScopedPool] : n \in 1..2}

\* None, or str(current_dir.relative_to(root_path))
Bases == {None, PathStr(<<N_top, N_s>>), PathStr(<<N_top>>)}

ScopedCandidates ==
  { Candidate(<<N_top, N_s, N_x_txt>>, FALSE, "absent"),
    Candidate(<<N_top, N_s, N_sub, N_x_txt>>, FALSE, "absent"),
    Candidate(<<N_top, N_t, N_x_txt>>, FALSE, "absent"),
    Candidate(<<N_top, N_x_txt>>, FALSE, "absent"),
    Candidate(<<N_x_txt>>, FALSE, "absent"),
    Candidate(<<N_root, N_test_txt>>, FALSE, "absent"),
    Candidate(<<N_other_d, N_root, N_test_txt>>, FALSE, "absent") }

InitScoped ==
  /\ env = EnvIdle
  /\ prev = NoScan
  /\ cache = CacheIdle
  /\ Fresh
  /\ \E ls \in ScopedLists, b \in Bases, c \in ScopedCandidates :
       rs = [phase |-> "new", lines |-> ls, base |-> b, cs |-> TRUE,
             registry |-> <<>>, parts |-> c.parts, is_dir |-> c.is_dir, cwdKind |-> c.cwdKind,
             ans |-> FALSE, asked |-> {}, n |-> 0]

SpecScoped == InitScoped /\ [][NextResolve]_vars


(***************************************************************************)
(* Resolutions with case sensitivity on and off.                           *)
(***************************************************************************)

N_a_txt   == <<"a", ".", "t", "x", "t">>
N_A_TXT   == <<"A", ".", "T", "X", "T">>
N_test_TXT == <<"t", "e", "s", "t", ".", "T", "X", "T">>
N_tx      == <<"t", "x">>
N_TX      == <<"T", "X">>

P_TXT       == <<"*", ".", "T", "X", "T">>
P_not_A_TXT == <<"!", "A", ".", "T", "X", "T">>
P_TX_dir    == <<"T", "X", "/">>

CasePool == {P_TXT, P_txt, P_not_A_TXT, P_TX_dir}

CaseLists == UNION {[1..n -> CasePool] : n \in 1..2}

CaseCandidates ==
  { Candidate(<<N_a_txt>>, FALSE, "absent"),
    Candidate(<<N_A_TXT>>, FALSE, "absent"),
    Candidate(<<N_test_TXT>>, FALSE, "absent"),
    Candidate(<<N_test_txt>>, FALSE, "absent"),
    Candidate(<<N_tx>>, TRUE, "absent"),
    Candidate(<<N_TX, N_A_TXT>>, FALSE, "absent") }

InitCase ==
  /\ env = EnvIdle
  /\ prev = NoScan
  /\ cache = CacheIdle
  /\ Fresh
  /\ \E ls \in CaseLists, c \in CaseCandidates, cs \in BOOLEAN :
       rs = [phase |-> "new", lines |-> ls, base |-> None, cs |-> cs,
             registry |-> <<>>, parts |-> c.parts, is_dir |-> c.is_dir,
             cwdKind |-> c.cwdKind, ans |-> FALSE, asked |-> {}, n |-> 0]

SpecCase == InitCase /\ [][NextResolve]_vars


(***************************************************************************)
(* Resolutions over every order and repetition of a few lines              *)
(***************************************************************************)

\* the number of lines registered for a resolution
MaxLines == 3

OrderPool == {P_txt, P_not_important, P_py, P_tests_dir}

OrderLists == UNION {[1..n -> OrderPool] : n \in 0..MaxLines}

OrderCandidates ==
  { Candidate(<<N_important>>, FALSE, "absent"),
    Candidate(<<N_other>>, FALSE, "absent"),
    Candidate(<<N_tests, N_b_py>>, FALSE, "absent"),
    Candidate(<<N_tests>>, TRUE, "dir"),
    Candidate(<<N_docs, N_tests>>, TRUE, "absent") }

InitOrder ==
  /\ env = EnvIdle
  /\ prev = NoScan
  /\ cache = CacheIdle
  /\ Fresh
  /\ \E ls \in OrderLists, c \in OrderCandidates :
       rs = [phase |-> "new", lines |-> ls, base |-> None, cs |-> TRUE,
             registry |-> <<>>, parts |-> c.parts, is_dir |-> c.is_dir,
             cwdKind |-> c.cwdKind, ans |-> FALSE, asked |-> {}, n |-> 0]

SpecOrder == InitOrder /\ [][NextResolve]_vars


(***************************************************************************)
(* A session of queries: patterns are registered, then is_ignored is asked *)
(* about several paths, some of them again.  The scanner holds the         *)
(* process-wide cache; its capacity, DefaultMaxSize in the source, is also *)
(* taken as 1 and 2 so that a table is full after one or two paths.        *)
(***************************************************************************)

\* the number of is_ignored calls of a session
MaxQueries == 4

QueryMaxSizes == {1, 2, DefaultMaxSize}

QueryLists == UNION {[1..n -> {P_txt, P_not_important}] : n \in 0..2}

QueryCandidates ==
  { Candidate(<<N_important>>, FALSE, "absent"),
    Candidate(<<N_other>>, FALSE, "absent"),
    Candidate(<<N_a_py>>, FALSE, "absent"),
    Candidate(<<N_tests>>, TRUE, "dir") }

InitQuery ==
  /\ env = EnvIdle
  /\ prev = NoScan
  /\ Fresh
  /\ \E m \in QueryMaxSizes : cache = PatternCache(m)
  /\ \E ls \in QueryLists :
       rs = [RsIdle EXCEPT !.phase = "new", !.lines = ls, !.base = None]

\* scanner.is_ignored(path), for any path and any number of times
Query ==
  /\ rs.phase \in {"registered", "answered"}
  /\ rs.n < MaxQueries
  /\ \E c \in QueryCandidates :
       /\ rs' = Asked(rs, c)
       /\ cache' = CacheAsked(cache, rs, c)
  /\ UNCHANGED scanVars

NextQuery == RegisterPatterns \/ Query

SpecQuery == InitQuery /\ [][NextQuery]_vars


(***************************************************************************)
(* scanner/fs.py: FileSystemScanner.scan, the sequential walk of the whole *)
(* tree by one scanner.  The walk is made first, the parallel scan of the  *)
(* same tree by git_ignore_filter afterwards.  The root is the directory   *)
(* /w; the walk hands absolute paths to is_ignored.                        *)
(***************************************************************************)

\* the parts of the absolute path of the entry whose relative path is rel
\* (the empty first part makes PathStr begin with a slash)
AbsParts(rel) == << <<>>, <<"w">> >> \o rel

\* str(directory)
AbsStr(rel) == PathStr(AbsParts(rel))

\* _scan_directory(d) up to its loop, lines 56-66: the ignore file of d is
\* read unless it is in _scanned_paths, then os.scandir is called; an
\* exception ends this call only
FsEnterDir(e, w, d, cs) ==
  LET dn    == DirAt(e, d)
      probe == ProbeIgnoreFile(e, d)
      fresh == probe = "yes" /\ d \notin w.scanned
      patterns == IF fresh THEN read_ignore_file(dn.ign, "yes") ELSE <<>>
      w1 == IF fresh
            THEN [w EXCEPT !.scanned = @ \cup {d},
                           !.registry = add_patterns(@, patterns, AbsStr(d), cs),
                           !.reads = Append(@, [dir |-> d, base |-> AbsStr(d),
                                                n |-> Len(patterns)])]
            ELSE w
  IN  IF probe = "raise" THEN w
      ELSE IF dn.mode # "ok" THEN w1
      ELSE [w1 EXCEPT !.stack = Append(@, Frame(d, {n.path : n \in Listing(e, d)}))]

\* the walk after a step: scan() returns when the outermost _scan_directory
\* does
FsWalked(w) ==
  LET st == Unwind(w.stack)
  IN  [w EXCEPT !.stack = st, !.status = IF st = <<>> THEN "returned" ELSE "walking"]

\* FileSystemScanner(root).scan(), lines 28-37, and the call
\* _scan_directory(root_dir): the root ignore file is read and registered
\* without a base and is not entered in _scanned_paths
FsScan ==
  /\ walk.status = "idle"
  /\ pc = "start"
  /\ LET probe == ProbeIgnoreFile(env, Root)
         patterns == IF probe = "yes"
                     THEN read_ignore_file(DirAt(env, Root).ign, "yes") ELSE <<>>
         w0 == [FsIdle EXCEPT
                  !.registry = add_patterns(<<>>, patterns, None, TRUE),
                  !.reads = IF probe = "yes"
                            THEN <<[dir |-> Root, base |-> None, n |-> Len(patterns)]>>
                            ELSE <<>>]
     IN  walk' = IF probe = "raise" THEN [FsIdle EXCEPT !.status = "returned"]
                 ELSE FsWalked(FsEnterDir(env, w0, Root, TRUE))
  /\ UNCHANGED <<env, prev, rs, cache, pool, pc, case_sensitive, registry, root_patterns,
                 dirs, files, filtered_files, merged_patterns, tasks, outcome, result>>

\* what is_ignored(entry_path) of the walk finds for entry n
FsIgnored(w, n) ==
  BaseScanner_is_ignored(w.registry, AbsParts(n.path), EntryIsDir(n),
                         IF EntryIsDir(n) THEN "dir" ELSE "file")

\* one iteration of the loop of _scan_directory, lines 66-83
FsVisit(e, w, n) ==
  LET top  == w.stack[Len(w.stack)]
      rest == [w EXCEPT !.stack[Len(w.stack)].todo = top.todo \ {n.path}]
  IN  IF IsSymlink(n) \/ FsIgnored(w, n) THEN FsWalked(rest)
      ELSE IF EntryIsFile(n)
      THEN FsWalked([rest EXCEPT !.paths = @ \cup {PathStr(n.path)}])
      ELSE FsWalked(FsEnterDir(e, rest, n.path, TRUE))

FsEntry ==
  /\ walk.status = "walking"
  /\ \E p \in walk.stack[Len(walk.stack)].todo :
       LET n == DirAt(env, p)
       IN  /\ walk' = FsVisit(env, walk, n)
           /\ cache' = IF IsSymlink(n) THEN cache
                       ELSE CacheAfterIsIgnored(cache, "walk", walk.registry,
                                                AbsParts(n.path), EntryIsDir(n),
                                                IF EntryIsDir(n) THEN "dir" ELSE "file")
  /\ UNCHANGED <<env, prev, rs, pool, pc, case_sensitive, registry, root_patterns,
                 dirs, files, filtered_files, merged_patterns, tasks, outcome, result>>

\* trees scanned both ways with the same case mode, no custom pattern and no
\* repository configuration
EnvsBoth ==
  { Env(Tree("ok", ri, si, "ok"), <<>>, "true", 1, NoRepo, FALSE, "other") :
      ri \in {NoIgn, IgnFile("utf8", <<P_txt>>)},
      si \in {NoIgn, IgnFile("utf8", <<P_not_txt>>), IgnFile("latin1", <<P_not_txt>>)} }
    \cup {Env(TreeA, <<>>, "true", 1, NoRepo, FALSE, "other")}
    \cup EnvsPruned

InitSequential ==
  /\ env \in EnvsBoth
  /\ prev = NoScan
  /\ cache = CacheIdle
  /\ rs = RsIdle
  /\ Fresh

\* the sequential walk, then the parallel scan in which no pool process dies
NextSequential ==
  \/ FsScan
  \/ FsEntry
  \/ /\ walk.status = "returned"
     /\ \/ GitIgnoreFilter
        \/ ReadRootGitignore
        \/ GetTopLevelEntries
        \/ FilterRootFiles
        \/ Submit
        \/ \E d \in DOMAIN tasks : TaskStart(d)
        \/ \E d \in DOMAIN tasks : WorkerEntry(d)
        \/ \E d \in DOMAIN tasks : Collect(d)
        \/ ScanReturn

SpecSequential == InitSequential /\ [][NextSequential]_vars

(***************************************************************************)
(* utils/cache.py: the calls made on a PatternCache                        *)
(***************************************************************************)

\* cache.get(pattern, path, is_dir)
CacheGet ==
  /\ cache.gets < MaxGets
  /\ \E pattern \in cache.live, a \in CacheArgs :
       cache' = AfterGet(cache, pattern, a[1], a[2])
  /\ UNCHANGED <<scanVars, rs>>

\* cache.set(pattern, path, is_dir, res)
CacheSet ==
  /\ \E pattern \in cache.live, a \in CacheArgs, res \in BOOLEAN :
       cache' = AfterSet(cache, pattern, a[1], a[2], res)
  /\ UNCHANGED <<scanVars, rs>>

\* cache.clear()
CacheClear ==
  /\ cache.last.op # "none"
  /\ cache' = [cache EXCEPT !.tables = <<>>, !.hits = 0, !.misses = 0, !.gets = 0,
                            !.last = [NoCall EXCEPT !.op = "clear"]]
  /\ UNCHANGED <<scanVars, rs>>

\* the last strong reference to a pattern object goes away: the
\* WeakKeyDictionary drops its table, and no call can name the object again
Release ==
  /\ \E pattern \in cache.live \cap WeakReferenceable :
       cache' = [cache EXCEPT
                   !.live = @ \ {pattern},
                   !.tables = [q \in DOMAIN @ \ {pattern} |-> @[q]],
                   !.last = [NoCall EXCEPT !.op = "release", !.pattern = pattern]]
  /\ UNCHANGED <<scanVars, rs>>

InitCache ==
  /\ env = EnvIdle
  /\ prev = NoScan
  /\ rs = RsIdle
  /\ Fresh
  /\ \E m \in MaxSizes : cache = PatternCache(m)

NextCache == CacheGet \/ CacheSet \/ CacheClear \/ Release

SpecCache == InitCache /\ [][NextCache]_vars


(***************************************************************************)
(* Claims                                                                  *)
(***************************************************************************)

\* the patterns of rs.registry that match the candidate
RsMatching ==
  {i \in 1..Len(rs.registry) :
     PatternMatches(rs.registry[i], rs.parts, rs.is_dir, rs.cwdKind)}

RsNegatedMatching == {i \in RsMatching : rs.registry[i].negated}

\* the index at which the scan of rs.registry ends: the first matching
\* negated pattern, or past the last pattern
RsScanEnd ==
  IF RsNegatedMatching = {} THEN Len(rs.registry) + 1
  ELSE CHOOSE k \in RsNegatedMatching : \A j \in RsNegatedMatching : k <= j

RsAsked(lines, parts) ==
  rs.phase = "answered" /\ rs.lines = lines /\ rs.parts = parts

\* C1: is_ignored answers with the running flag of a scan in registration
\* order: the flag starts false, a matching non-negated pattern sets it, the
\* first matching negated pattern ends the scan with "not ignored".  With
\* ["*.txt", "!important.txt"] important.txt is included and other.txt is
\* excluded; with ["*.py", "!tests/*.py"] tests/b.py is included and a.py is
\* excluded.
C1_RunningFlagNegationTerminal ==
  /\ rs.phase = "answered" =>
       rs.ans = ( /\ RsScanEnd = Len(rs.registry) + 1
                  /\ \E i \in RsMatching : i < RsScanEnd )
  /\ RsAsked(<<P_txt, P_not_important>>, <<N_important>>) => ~rs.ans
  /\ RsAsked(<<P_txt, P_not_important>>, <<N_other>>) => rs.ans
  /\ RsAsked(<<P_py, P_not_tests_py>>, <<N_tests, N_b_py>>) => ~rs.ans
  /\ RsAsked(<<P_py, P_not_tests_py>>, <<N_a_py>>) => rs.ans

\* a negated pattern matched after a non-negated one had set the flag, and
\* a pattern registered after it matches too
C1_Witness ==
  /\ rs.phase = "answered"
  /\ rs.lines = <<P_txt, P_not_important, P_txt>>
  /\ rs.parts = <<N_important>>
  /\ RsMatching = {1, 2, 3}
  /\ ~rs.ans


\* the path strings held anywhere in the scan: collected, in a task, returned
AllPaths ==
  filtered_files \cup SeqRange(result)
    \cup UNION {tasks[d].paths : d \in DOMAIN tasks}

HasSegment(str, seg) == \E i \in 1..Len(SplitSlash(str)) : SplitSlash(str)[i] = seg

\* str names an entry below the directory named dir
Under(str, dir) == StartsWith(str, dir \o <<"/">>)

Returned == outcome = "returned"

AllTasksDone == \A d \in DOMAIN tasks : tasks[d].status = "done"

IgnOf(path) == DirAt(env, path).ign

ModeOf(path) == DirAt(env, path).mode

Dir_s == <<N_top, N_s>>

Dir_t == <<N_top, N_t>>

\* the regular files of the tree outside .git
RegularFiles ==
  {n \in env.nodes : n.kind = "file" /\ \A i \in 1..Len(n.path) : n.path[i] # DotGit}

\* C2: a pattern read from the ignore file of a directory S never changes
\* the decision of a path outside S: with root pattern *.txt and !*.txt in
\* the ignore file of S, every .txt file under S is included and every .txt
\* file outside S stays excluded, whatever order directories are visited in.
C2_ScopedPatternStaysInScope ==
  ( /\ Returned /\ AllTasksDone
    /\ env.custom_patterns = <<>>
    /\ IgnOf(Root) = IgnFile("utf8", <<P_txt>>)
    /\ IgnOf(Dir_s) = IgnFile("utf8", <<P_not_txt>>)
    /\ ModeOf(Dir_t) = "ok" )
  => /\ PathStr(<<N_top, N_s, N_x_txt>>) \in SeqRange(result)
     /\ \A r \in SeqRange(result) :
          EndsWith(r, <<".", "t", "x", "t">>) => Under(r, PathStr(Dir_s))

\* C3: a path with a .git segment is resolved as ignored by
\* BaseScanner.is_ignored under every registry of the scan, negated patterns
\* that match it included, and no path collected or returned has a .git
\* segment.
C3_DotGitAlwaysExcluded ==
  /\ \A r \in AllPaths : ~HasSegment(r, DotGit)
  /\ \A n \in {x \in env.nodes : \E i \in 1..Len(x.path) : x.path[i] = DotGit} :
       /\ BaseScanner_is_ignored(registry, n.path, EntryIsDir(n), CwdKind(env, n))
       /\ \A d \in DOMAIN tasks :
            BaseScanner_is_ignored(tasks[d].registry, n.path, EntryIsDir(n),
                                   CwdKind(env, n))

\* the scan returned files, the task of the .git directory ran to its end,
\* and a negated pattern of the registry matches .git/cfg
C3_Witness ==
  /\ Returned
  /\ result # <<>>
  /\ <<DotGit>> \in DOMAIN tasks
  /\ tasks[<<DotGit>>].status = "done" /\ tasks[<<DotGit>>].collected
  /\ \E i \in 1..Len(tasks[<<DotGit>>].registry) :
       /\ tasks[<<DotGit>>].registry[i].negated
       /\ match(tasks[<<DotGit>>].registry[i], PathStr(<<DotGit, N_cfg>>))
  /\ ~GitIgnoreScanner_is_ignored(tasks[<<DotGit>>].registry, <<DotGit, N_cfg>>,
                                  FALSE, "absent")

\* C4: a symbolic link is never emitted and never traversed, at the root
\* and at every depth of every walk.
C4_SymlinksNeverEmittedNorTraversed ==
  \A n \in {x \in env.nodes : x.kind \in {"symfile", "symdir"}} :
    /\ \A r \in AllPaths : r # PathStr(n.path) /\ ~Under(r, PathStr(n.path))
    /\ n.path \notin dirs
    /\ \A d \in DOMAIN tasks :
         /\ ~IsPrefix(n.path, d)
         /\ \A i \in 1..Len(tasks[d].stack) : ~IsPrefix(n.path, tasks[d].stack[i].dir)

\* the scan returned files after the walk of top/ met the link top/l.py and
\* the root listing met the link ln
C4_Witness ==
  /\ Returned
  /\ PathStr(<<N_top, N_t, N_y_txt>>) \in SeqRange(result)
  /\ tasks[<<N_top>>].status = "done" /\ tasks[<<N_top>>].collected
  /\ \E n \in env.nodes : n.path = <<N_top, N_l_py>> /\ n.kind = "symfile"
  /\ \E n \in env.nodes : n.path = <<N_ln>> /\ n.kind = "symdir"

\* C5: the returned list is strictly increasing in string order and each
\* of its elements is the root-relative path of a regular file.
C5_SortedRegularFiles ==
  Returned =>
    /\ \A i \in 1..(Len(result) - 1) : StrLess(result[i], result[i + 1])
    /\ \A i \in 1..Len(result) :
         \E n \in env.nodes : n.kind = "file" /\ PathStr(n.path) = result[i]

\* a list of root-level files and files of a task, with two pool processes
C5_Witness ==
  /\ Returned
  /\ env.num_workers = 2
  /\ Len(result) >= 4
  /\ \E d \in DOMAIN tasks : tasks[d].status = "done" /\ tasks[d].paths # {}
  /\ \E i \in 1..Len(result) : ~Under(result[i], PathStr(<<N_top>>))

\* C6: two successive scans of an unchanged tree with the same options
\* return identical lists.
C6_SuccessiveScansAgree ==
  (prev.n >= 1 /\ Returned) => result = prev.result

\* C7: when the root directory cannot be listed, git_ignore_filter fails
\* with PermissionError and returns no list.
C7_RootListingFailureRaises ==
  (ModeOf(Root) # "ok" /\ pc \in {"done", "raised"}) => outcome = "PermissionError"

\* C8: when the task of a top-level directory fails, scan() does not raise,
\* that subtree contributes no path, and the returned list holds every
\* root-level file that passed the filter and every path of the other tasks.
C8_TaskFailureAbsorbed ==
  /\ (\E d \in DOMAIN tasks : tasks[d].status = "raised") => pc # "raised"
  /\ Returned =>
       /\ SeqRange(result) =
            RootFiltered(env, registry, files) \cup
              UNION {tasks[d].paths : d \in {x \in DOMAIN tasks : tasks[x].status = "done"}}
       /\ \A d \in {x \in DOMAIN tasks : tasks[x].status = "raised"} :
            \A r \in SeqRange(result) : ~Under(r, PathStr(d))

\* a task failed after it had found paths, another task had produced paths,
\* and the scan returned
C8_Witness ==
  /\ Returned
  /\ \E d \in DOMAIN tasks : tasks[d].status = "raised"
  /\ \E d \in DOMAIN tasks : tasks[d].status = "done" /\ tasks[d].paths # {}
  /\ RootFiltered(env, registry, files) # {}

\* the directories other than the root whose processing raises
FailingDirs ==
  {n \in env.nodes :
     /\ n.kind = "dir" /\ n.path # Root
     /\ n.mode # "ok" \/ n.ign.state \in {"unreadable", "latin1"}}

\* no ignore file and no option contributes a pattern that excludes a file
NothingExcluded ==
  /\ env.custom_patterns = <<>>
  /\ IgnOf(Root).state \in {"absent", "unreadable"}
  /\ \A n \in env.nodes :
       (n.kind = "dir" /\ n.path # Root /\ n.ign.state = "utf8") =>
         \A i \in 1..Len(n.ign.lines) : StartsWith(n.ign.lines[i], <<"!">>)

\* C9: an error raised while a walk processes a directory D other than the
\* root (listing D, probing or reading its ignore file) removes at most the
\* files under D from the result.
C9_SubdirErrorLosesOnlyItsSubtree ==
  (Returned /\ AllTasksDone /\ NothingExcluded /\ ModeOf(Root) = "ok") =>
    \A f \in RegularFiles :
      (\A D \in FailingDirs : ~IsPrefix(D.path, f.path)) =>
        PathStr(f.path) \in SeqRange(result)

\* C10: an ignore file that cannot be read or is not valid UTF-8 is read
\* through the ISO-8859-1 fallback or contributes no pattern, and never
\* causes a file to be dropped from the result.
C10_BadIgnoreFileDropsNoFile ==
  ( /\ Returned /\ AllTasksDone /\ NothingExcluded
    /\ \A n \in env.nodes : n.kind = "dir" => n.mode = "ok" )
  => \A f \in RegularFiles : PathStr(f.path) \in SeqRange(result)

\* C11: when directory_path names no existing directory, git_ignore_filter
\* raises FileNotFoundError, and no pattern is registered, no directory is
\* listed and no task is submitted before it does.
C11_MissingDirectoryRaisesFirst ==
  ~(env.exists /\ DirAt(env, <<>>).kind = "dir") =>
    /\ pc \in {"start", "raised"}
    /\ pc = "raised" => outcome = "FileNotFoundError"
    /\ pc = "start" => outcome = "none"
    /\ registry = <<>> /\ root_patterns = <<>> /\ merged_patterns = <<>>
    /\ dirs = {} /\ files = {} /\ filtered_files = {}
    /\ tasks = << >> /\ result = <<>>

\* the call was made with custom patterns on a path that names a regular file
C11_Witness ==
  /\ outcome = "FileNotFoundError"
  /\ env.custom_patterns # <<>>
  /\ DirAt(env, <<>>).kind = "file"

\* C12: a directory-only pattern d/ makes the decision true for every
\* directory entry named d, whatever the name and at any depth, and never
\* for a regular file named d.
C12_DirectoryOnlyPattern ==
  ( /\ rs.phase = "answered"
    /\ Len(rs.lines) = 1
    /\ rs.lines[1] = rs.parts[Len(rs.parts)] \o <<"/">> )
  => rs.ans = rs.is_dir

\* C13: a pattern with a leading / matches only at its base directory:
\* /x.txt read from the ignore file of top/s matches top/s/x.txt and no
\* x.txt deeper inside top/s or outside it; unscoped, /root/*.txt matches
\* root/test.txt and not other/root/test.txt.
C13_LeadingSlashAnchorsAtBase ==
  /\ ( /\ rs.phase = "answered"
       /\ rs.lines = <<P_abs_x_txt>>
       /\ rs.base = PathStr(<<N_top, N_s>>) )
     => rs.ans = (rs.parts = <<N_top, N_s, N_x_txt>>)
  /\ ( /\ rs.phase = "answered"
       /\ rs.lines = <<P_abs_root_txt>>
       /\ rs.base = None )
     => rs.ans = (rs.parts = <<N_root, N_test_txt>>)

\* the other letter case of a character
SwapCaseChar(c) ==
  CASE c = "A" -> "a" [] c = "G" -> "g" [] c = "I" -> "i" [] c = "T" -> "t"
    [] c = "X" -> "x" [] c = "a" -> "A" [] c = "g" -> "G" [] c = "i" -> "I"
    [] c = "t" -> "T" [] c = "x" -> "X" [] OTHER -> c

SwapCase(str) == [i \in 1..Len(str) |-> SwapCaseChar(str[i])]

SwapCaseAll(strs) == [i \in 1..Len(strs) |-> SwapCase(strs[i])]

\* the decision of a scanner of case mode cs holding lines, for parts
Decision(lines, cs, parts) ==
  GitIgnoreScanner_is_ignored(add_patterns(<<>>, lines, None, cs), parts,
                              rs.is_dir, rs.cwdKind)

\* C14: with case sensitivity off the decision is unchanged by changing the
\* letter case of the pattern or of the path, and *.TXT matches a.txt and
\* A.TXT; with case sensitivity on *.TXT matches test.TXT and not test.txt.
C14_CaseSensitivity ==
  rs.phase = "answered" =>
    /\ ~rs.cs =>
         /\ rs.ans = Decision(SwapCaseAll(rs.lines), FALSE, rs.parts)
         /\ rs.ans = Decision(rs.lines, FALSE, SwapCaseAll(rs.parts))
         /\ rs.ans = Decision(rs.lines, FALSE, [rs.parts EXCEPT ![1] = Lower(@)])
    /\ (~rs.cs /\ rs.lines = <<P_TXT>> /\ rs.parts \in {<<N_a_txt>>, <<N_A_TXT>>})
         => rs.ans
    /\ (rs.cs /\ rs.lines = <<P_TXT>> /\ rs.parts = <<N_test_TXT>>) => rs.ans
    /\ (rs.cs /\ rs.lines = <<P_TXT>> /\ rs.parts = <<N_test_txt>>) => ~rs.ans

\* a case-insensitive scanner holding *.TXT answered true for A.TXT
C14_Witness ==
  /\ rs.phase = "answered"
  /\ ~rs.cs
  /\ rs.lines = <<P_TXT>>
  /\ rs.parts = <<N_A_TXT>>
  /\ rs.ans

\* C15: a failure of the configuration provider, of any kind, is treated as
\* "no value": the scan goes on, case-sensitive when case_sensitive is unset
\* and with no global pattern, and the failure never reaches the caller.
C15_ConfigFailureIsNoValue ==
  (isdir(env) /\ GitConfig(env.config) # "none" /\ pc # "start") =>
    /\ outcome # GitConfig(env.config)
    /\ env.case_sensitive = "unset" => case_sensitive
    /\ pc = "read_root" =>
         registry = add_patterns(<<>>, env.custom_patterns, None, case_sensitive)

\* the lines of the global excludes file that git_ignore_filter registers
GlobalLines ==
  IF GitConfig(env.config) = "none" /\ env.config.excludes.state # "absent"
  THEN read_ignore_file(env.config.excludes, "yes") ELSE <<>>

\* a list without its repeated elements, first occurrences kept
RECURSIVE Dedup(_)
Dedup(q) ==
  IF q = <<>> THEN <<>>
  ELSE LET init == SubSeq(q, 1, Len(q) - 1)
           last == q[Len(q)]
       IN  IF last \in SeqRange(init) THEN Dedup(init) ELSE Append(Dedup(init), last)

PastReadRoot == pc \in {"list_root", "filter_files", "submit", "collect", "done"}

PastSubmit == pc \in {"collect", "done"}

\* the tasks a pool process took
StartedTasks == {d \in DOMAIN tasks : tasks[d].status \in {"running", "done"}}

C17_ScenarioA ==
  (env \in EnvsScenarioA /\ pc \in {"done", "raised"}) =>
    /\ Returned
    /\ result = <<PathStr(<<N_a_py>>)>>

\* the number of entries the table of a pattern holds
Held(c, pattern) ==
  IF pattern \in DOMAIN c.tables THEN Cardinality(DOMAIN c.tables[pattern]) ELSE 0

\* the tables of the patterns other than the given one are the same in
\* both caches
OtherTablesSame(c, d, pattern) ==
  /\ DOMAIN c.tables \ {pattern} = DOMAIN d.tables \ {pattern}
  /\ \A q \in DOMAIN c.tables \ {pattern} : c.tables[q] = d.tables[q]

CapacityAndBulkResetFromOne ==
  [][ LET call == cache'.last
      IN  cache.max_size >= 1 =>
            /\ \A q \in DOMAIN cache'.tables : Held(cache', q) <= cache'.max_size
            /\ (/\ call.op = "set"
                /\ is_cacheable(call.pattern)
                /\ Held(cache, call.pattern) = cache.max_size) =>
                 /\ call.pattern \in DOMAIN cache'.tables
                 /\ cache'.tables[call.pattern] = [k \in {call.key} |-> call.ret[1]]
                 /\ OtherTablesSame(cache, cache', call.pattern) ]_vars

\* a set has just reset a table of two entries while the other pattern has
\* a table
C18_ResetSeen ==
  /\ cache.last.op = "set"
  /\ cache.last.full
  /\ cache.max_size = 2
  /\ \E q \in DOMAIN cache.tables : q # cache.last.pattern

\* the keys the calls can name
CacheKeys == {Key(a[1], a[2]) : a \in CacheArgs}

\* what a step may do to the entry of pattern q under key j, given the call
\* it made: leave it as it was, write it by a set on that very key, or drop
\* it by clear or by a set that resets the table of q for capacity
EntryFrame(call, q, j) ==
  Stored(cache', q, j) # Stored(cache, q, j) =>
    \/ call.op = "clear" /\ Stored(cache', q, j) = None
    \/ /\ call.op = "set"
       /\ call.pattern = q
       /\ \/ call.key = j
          \/ Held(cache, q) >= cache.max_size /\ Stored(cache', q, j) = None

C20_CountersFollowGets ==
  [][ LET call == cache'.last
          stored == /\ call.pattern \in DOMAIN cache.tables
                    /\ call.key \in DOMAIN cache.tables[call.pattern]
      IN  /\ cache'.hits + cache'.misses = cache'.gets
          /\ call.op = "get" =>
               /\ cache'.gets = cache.gets + 1
               /\ IF stored
                  THEN cache'.hits = cache.hits + 1 /\ cache'.misses = cache.misses
                  ELSE cache'.hits = cache.hits /\ cache'.misses = cache.misses + 1
          /\ call.op = "set" =>
               cache'.hits = cache.hits /\ cache'.misses = cache.misses
          /\ call.op = "clear" =>
               cache'.hits = 0 /\ cache'.misses = 0 /\ cache'.gets = 0
          /\ hit_ratio(cache') =
               IF cache'.gets = 0 THEN [num |-> 0, den |-> 1]
               ELSE [num |-> cache'.hits, den |-> cache'.gets] ]_vars

\* a get has just found a stored False, after one miss
C20_Witness ==
  /\ cache.last.op = "get"
  /\ cache.last.ret = <<FALSE>>
  /\ cache.hits = 1
  /\ cache.misses = 1

\* a/b < c/d for fractions of positive denominators
FracLess(x, y) == x.num * y.den < y.num * x.den

\* the step is a call of is_ignored with a path, and a kind, asked before in
\* the session
RepeatedQuery ==
  /\ rs'.n = rs.n + 1
  /\ Candidate(rs'.parts, rs'.is_dir, rs'.cwdKind) \in rs.asked

RepeatedQueryBelowCapacity ==
  [][ (RepeatedQuery /\ rs.registry # <<>> /\ cache.max_size = DefaultMaxSize)
        => FracLess(hit_ratio(cache), hit_ratio(cache')) ]_vars

\* with no pattern registered a repeated query leaves the ratio at 0
RepeatedQueryOfNoPattern ==
  [][ (RepeatedQuery /\ rs.registry = <<>>)
        => hit_ratio(cache') = hit_ratio(cache) ]_vars

\* the permutations of rs.lines, and its lines once each in every order
SameLines ==
  LET n == Len(rs.lines)
  IN  {[i \in 1..n |-> rs.lines[f[i]]] : f \in Orders(1..n)}
        \cup Orders(SeqRange(rs.lines))

\* C27: the decision of is_ignored depends neither on the registration
\* order of the patterns nor on repeated entries: the path is ignored iff
\* some non-negated pattern matches it and no negated pattern does, and
\* every permutation of the list, and the list made unique in every order,
\* gives the same decision.
C27_OrderAndRepetitionIndependent ==
  rs.phase = "answered" =>
    /\ rs.ans = ( /\ \E i \in RsMatching : ~rs.registry[i].negated
                  /\ \A i \in RsMatching : ~rs.registry[i].negated )
    /\ \A ls \in SameLines : Decision(ls, rs.cs, rs.parts) = rs.ans

\* three lines were registered with a repetition, a negated one among them
\* matched, and the lists of the same lines are several
C27_Witness ==
  /\ rs.phase = "answered"
  /\ rs.lines = <<P_not_important, P_txt, P_not_important>>
  /\ rs.parts = <<N_important>>
  /\ RsMatching = {1, 2, 3}
  /\ Cardinality(SameLines) > 2
  /\ ~rs.ans

\* C30: a set on a key that is already stored for its pattern only replaces
\* the value of that key; every other entry of the table of the pattern is
\* left as it was, also when the table holds max_size entries.
C30_OverwriteKeepsOtherEntries ==
  [][ LET call == cache'.last
          p == call.pattern
      IN  ( /\ call.op = "set"
            /\ p \in DOMAIN cache.tables
            /\ call.key \in DOMAIN cache.tables[p] )
          => /\ p \in DOMAIN cache'.tables
             /\ cache'.tables[p] = [cache.tables[p] EXCEPT ![call.key] = call.ret[1]] ]_vars

\* what a cache holds and counted
Contents(c) == [tables |-> c.tables, hits |-> c.hits, misses |-> c.misses]

\* C23: no cache outlives a scan or a task or is shared between them: when
\* git_ignore_filter is entered the cache its scanner will use holds nothing
\* and has counted nothing, and the cache a pool process offers to its next
\* task is as it was when the process was created, whatever tasks the
\* process ran before.
C23_NoCacheSharedOrOutliving ==
  /\ pc = "start" => Contents(cache) = Contents(CacheIdle)
  /\ pc = "collect" =>
       \A p \in Idle : Contents(pool[p]) = Contents(Processes(env, cache)[p])

\* the registry a task starts with: the baseline list handed to it
Baseline == 
  IF merged_patterns # <<>>
  THEN add_patterns(<<>>, merged_patterns, None, case_sensitive) ELSE <<>>

\* the patterns a task appended to its registry
Discovered(d) ==
  {tasks[d].registry[i] : i \in (Len(Baseline) + 1)..Len(tasks[d].registry)}

\* C22: the patterns a task discovers stay in its own registry.  While the
\* tasks run, in any interleaving, the registry of every task that a process
\* took is the
\* baseline followed by patterns of ignore files of its own top-level
\* subtree, the baseline list is the merge made before the tasks were
\* submitted, and the root-level files kept are those the orchestrator's
\* registry keeps.
C22_TaskPatternsStayInTask ==
  pc = "collect" =>
    /\ SeqRange(merged_patterns) = SeqRange(MergedList(root_patterns, registry))
    /\ Len(merged_patterns) = Cardinality(SeqRange(merged_patterns))
    /\ filtered_files \cap {PathStr(f) : f \in files}
          = RootFiltered(env, registry, files)
    /\ \A d \in DOMAIN tasks :
         tasks[d].proc # 0 =>
           /\ Len(tasks[d].registry) >= Len(Baseline)
           /\ SubSeq(tasks[d].registry, 1, Len(Baseline)) = Baseline
           /\ \A q \in Discovered(d) :
                q.base_path # None /\ StartsWith(q.base_path, PathStr(d))

\* two tasks run at once, one of them found patterns in its subtree, and
\* the orchestrator kept a root-level file
C22_Witness ==
  /\ pc = "collect"
  /\ DOMAIN tasks = {<<DotGit>>, <<N_top>>}
  /\ tasks[<<DotGit>>].status = "running"
  /\ tasks[<<N_top>>].status = "running"
  /\ Discovered(<<N_top>>) # {}
  /\ Discovered(<<DotGit>>) = {}
  /\ Baseline # <<>>
  /\ \E f \in files : PathStr(f) \in filtered_files

\* the directories and the regular files that the root of the tree holds
TopDirs == {n.path : n \in {x \in env.nodes : Len(x.path) = 1 /\ x.kind = "dir"}}

TopFiles == {n.path : n \in {x \in env.nodes : Len(x.path) = 1 /\ x.kind = "file"}}

\* the paths returned by the tasks that succeeded
Succeeded == UNION {tasks[d].paths : d \in {x \in DOMAIN tasks : tasks[x].status = "done"}}

C24_OneTaskPerDirectory ==
  (pc \in {"collect", "done"} /\ ModeOf(Root) = "ok") =>
    /\ DOMAIN tasks = TopDirs
    /\ files = TopFiles
    /\ Returned =>
         /\ \A d \in TopDirs : tasks[d].collected
         /\ result = Sorted(RootFiltered(env, registry, TopFiles) \cup Succeeded)

C24_EnumeratedOnce ==
  /\ (dirs' # dirs \/ files' # files) => pc = "list_root"
  /\ (DOMAIN tasks' # DOMAIN tasks) => pc = "submit"
  /\ (pc = "collect" /\ filtered_files' # filtered_files) =>
       \E d \in DOMAIN tasks :
         /\ ~tasks[d].collected /\ tasks'[d].collected
         /\ filtered_files' = filtered_files \cup tasks[d].paths

\* C24: scan() enumerates the root once (dirs and files are assigned by the
\* one listing, the tasks by the one submission), a root that can be listed
\* gives exactly one task per top-level directory that is not a symbolic
\* link, each task's paths are merged once, and the list returned is the
\* root-level files that passed the baseline filter together with the paths
\* of the tasks that succeeded, for every order of completion and for pools
\* of one and of two processes.
C24_RootOnceOneTaskEachExactUnion ==
  [](C24_OneTaskPerDirectory) /\ [][C24_EnumeratedOnce]_vars

\* a pool of one process ran both tasks of a tree that also holds a
\* symbolic link to a directory, and the scan returned root-level files and
\* paths of a task, each once
C24_Witness ==
  /\ Returned
  /\ env.num_workers = 1
  /\ \E n \in env.nodes : Len(n.path) = 1 /\ n.kind = "symdir"
  /\ Cardinality(TopDirs) = 2
  /\ AllTasksDone
  /\ RootFiltered(env, registry, TopFiles) # {}
  /\ Succeeded # {}
  /\ Len(result) = Cardinality(RootFiltered(env, registry, TopFiles)) + Cardinality(Succeeded)

\* every dispatched task has finished and its future was consumed
AllFinished ==
  \A d \in DOMAIN tasks : tasks[d].status \in {"done", "raised"} /\ tasks[d].collected

\* a task that runs has an entry to visit, whatever the other tasks do, and
\* scan() has returned only if every task has finished
C25_NoWaitNoPartialResult ==
  /\ \A d \in Running :
       tasks[d].stack # <<>> /\ tasks[d].stack[Len(tasks[d].stack)].todo # {}
  /\ pc = "done" => AllFinished

\* C25: under fair scheduling, for every tree and for pools of one and of
\* two processes, once the tasks are dispatched every one of them finishes,
\* with its paths or with a failure that the collection loop catches, and
\* scan() returns; it returns only after all of them have finished; a
\* running task never waits for another task.
C25_FairScanTerminates ==
  /\ [](C25_NoWaitNoPartialResult)
  /\ (pc = "collect") ~> (pc = "done" /\ AllFinished)

\* the scan returned after two tasks had run, one of which failed
C25_Witness ==
  /\ pc = "done"
  /\ Cardinality(DOMAIN tasks) = 2
  /\ AllFinished
  /\ \E d \in DOMAIN tasks : tasks[d].status = "raised"
  /\ \E d \in DOMAIN tasks : tasks[d].status = "done"

\* the directories above the file of path parts, the root excepted
Ancestors(parts) == {SubSeq(parts, 1, k) : k \in 1..(Len(parts) - 1)}

\* the registry that resolves directory D: the orchestrator's for a
\* top-level directory, the registry of the task that walks it otherwise
RegistryFor(D) == IF Len(D) = 1 THEN registry ELSE tasks[<<D[1]>>].registry

ResolvesIgnored(D) ==
  BaseScanner_is_ignored(RegistryFor(D), D, TRUE, CwdKind(env, DirAt(env, D)))

\* C28: no returned file lies under a directory that resolves as ignored,
\* be it a top-level directory of the root or a directory met deeper in a
\* walk, also when a negated pattern matches the file.
C28_NoFileUnderIgnoredDirectory ==
  Returned =>
    \A f \in {n \in env.nodes : n.kind = "file"} :
      PathStr(f.path) \in SeqRange(result) =>
        \A D \in Ancestors(f.path) : ~ResolvesIgnored(D)

\* the same for the directories below the top level: the walk of a task
\* prunes them
C28_DeeperDirectoriesPruned ==
  Returned =>
    \A f \in {n \in env.nodes : n.kind = "file"} :
      PathStr(f.path) \in SeqRange(result) =>
        \A D \in {x \in Ancestors(f.path) : Len(x) > 1} : ~ResolvesIgnored(D)

\* C29: for the same tree, the same ignore files and the same case mode,
\* WorkerScanner.scan and FileSystemScanner.scan return the same set of
\* paths.
C29_ParallelEqualsSequential ==
  (walk.status = "returned" /\ Returned) => SeqRange(result) = walk.paths

\* the contributions of ignore files to the registry of the sequential walk
Contributions == {i \in 1..Len(walk.reads) : walk.reads[i].n > 0}

\* the positions of the registry of the task of d that hold a pattern
\* registered with base b
FromBase(d, b) ==
  {i \in (Len(Baseline) + 1)..Len(tasks[d].registry) : tasks[d].registry[i].base_path = b}

\* C26: in one walk every ignore file contributes its patterns to the
\* registry at most once, scoped to the directory that holds it: after
\* FileSystemScanner.scan no directory (the root included) has two
\* contributions and each names its directory as base; after the walk of a
\* task every pattern it added has the directory of an ignore file of its
\* subtree as base, and no file gave more patterns than it has lines.
C26_EachIgnoreFileOnceScoped ==
  /\ walk.status = "returned" =>
       /\ \A i, j \in Contributions :
            i # j => walk.reads[i].dir # walk.reads[j].dir
       /\ \A i \in Contributions :
            walk.reads[i].base = AbsStr(walk.reads[i].dir)
  /\ \A d \in DOMAIN tasks :
       tasks[d].status = "done" =>
         /\ \A q \in Discovered(d) :
              \E D \in {n \in env.nodes : n.kind = "dir" /\ IsPrefix(d, n.path)} :
                q.base_path = PathStr(D.path)
         /\ \A D \in {n \in env.nodes : n.kind = "dir" /\ IsPrefix(d, n.path)} :
              Cardinality(FromBase(d, PathStr(D.path))) <= Len(WorkerLines(D.ign.lines))

\* the same for the walks of the tasks alone
C26_TaskWalksOnceScoped ==
  \A d \in DOMAIN tasks :
    tasks[d].status = "done" =>
      /\ \A q \in Discovered(d) :
           \E D \in {n \in env.nodes : n.kind = "dir" /\ IsPrefix(d, n.path)} :
             q.base_path = PathStr(D.path)
      /\ \A D \in {n \in env.nodes : n.kind = "dir" /\ IsPrefix(d, n.path)} :
           Cardinality(FromBase(d, PathStr(D.path))) <= Len(WorkerLines(D.ign.lines))

====
